---------------------------- MODULE Spec2Model ----------------------------
(***************************************************************************)
(* Evidence Coverage Evaluator (package ece): the evidence retriever, the  *)
(* two claim scorers and the evaluation orchestrator as state machines.    *)
(*                                                                         *)
(* Conventions                                                             *)
(*   - a Python str is a sequence of one-character strings;                *)
(*   - a Python float is an integer number of 1/Scale units (fixed point); *)
(*   - an Optional value is a sequence of length 0 (None) or 1;            *)
(*   - a call that can raise yields a record [exc, val]: exc is "none"     *)
(*     and val the returned value, or exc names the exception raised.      *)
(***************************************************************************)
EXTENDS Integers, Sequences, FiniteSets, TLC

VARIABLES
    \* EvidenceRetriever (evidence_retriever.py)
    method,              \* self.method
    top_k,               \* self.top_k
    passages,            \* self.passages
    passage_texts,       \* self.passage_texts
    bm25,                \* self.bm25: unset, None or the built BM25Okapi index
    passage_embeddings,  \* self.passage_embeddings
    encoder,             \* self.embedding_model: None, or the encoder's text -> vector map
    ret,                 \* outcome of the last retrieve call
    \* one score_claim call on a scorer (nli_scorer.py, ollama_judge.py)
    strategy,            \* "nli": NLIScorer (classifier), "judge": OllamaJudge
    s_claim,             \* argument claim
    s_evidence,          \* argument evidence_snippets: the scorer overwrites scores in place
    s_threshold,         \* argument threshold
    s_out,               \* outcome of the call
    s_reply,             \* what the classifier or the judge service answers in the call
    \* EvidenceCoverageEvaluator (evaluator.py) and one evaluate call
    e_threshold,         \* self.threshold
    classifier,          \* self.scorer's model: the text pairs it has classified so far
    pc,                  \* position of the evaluate call
    answer,              \* argument answer
    context,             \* argument context: its passages
    claims,              \* local claims
    evidence_dict,       \* local evidence_dict: claim -> snippets
    claim_analyses,      \* local claim_analyses
    e_i,                 \* index of the running for loop
    result,              \* the EvaluationResult returned
    \* one call of a constructor or of a function without state
    f_op,                \* the function called
    f_arg,               \* its argument
    f_done,              \* whether it has been called
    f_out,               \* its outcome
    \* one evaluation whose per-claim steps are interleaved
    heap,                \* the SupportingSnippet objects created so far, by identity
    evidence_refs,       \* evidence_dict: claim -> the objects of its evidence list
    task                 \* per claim index: how far its steps are, and its analysis

rvars == <<method, top_k, passages, passage_texts, bm25, passage_embeddings,
           encoder, ret>>
svars == <<strategy, s_claim, s_evidence, s_threshold, s_out, s_reply>>
evars == <<e_threshold, classifier, pc, answer, context, claims, evidence_dict,
           claim_analyses, e_i, result>>
fvars == <<f_op, f_arg, f_done, f_out>>
pvars == <<heap, evidence_refs, task>>
vars == <<rvars, svars, evars, fvars, pvars>>

-----------------------------------------------------------------------------
(* Bounds of the model *)

MaxPassages == 3
MaxTopK == 2
MaxEvidence == 2
MaxQuotes == 2
MaxClaims == 2
MaxTokens == 5
MaxCitations == 13
MaxOccurrences == 2
MaxUnsupported == 4
MaxSentences == 3

(* Fixed point: 1.0 is Scale units. *)
Scale == 100 * 100

None == <<>>
Some(x) == <<x>>

Range(s) == {s[i] : i \in DOMAIN s}

Min(a, b) == IF a <= b THEN a ELSE b
Max(a, b) == IF a >= b THEN a ELSE b

RECURSIVE SumSeq(_)
SumSeq(s) == IF s = <<>> THEN 0 ELSE Head(s) + SumSeq(Tail(s))

RECURSIVE SumOver(_, _)
SumOver(f, S) ==
    IF S = {} THEN 0
    ELSE LET x == CHOOSE y \in S : TRUE IN f[x] + SumOver(f, S \ {x})

-----------------------------------------------------------------------------
(* Strings *)

Uppers == <<"A", "B", "C", "D", "E", "F", "G", "H", "I", "J", "K", "L", "M",
           "N", "O", "P", "Q", "R", "S", "T", "U", "V", "W", "X", "Y", "Z">>
Lowers == <<"a", "b", "c", "d", "e", "f", "g", "h", "i", "j", "k", "l", "m",
           "n", "o", "p", "q", "r", "s", "t", "u", "v", "w", "x", "y", "z">>
Digits == {"0", "1", "2", "3", "4", "5", "6", "7", "8", "9"}

UpperToLower == [c \in Range(Uppers) |-> Lowers[CHOOSE i \in DOMAIN Uppers : Uppers[i] = c]]

\* str.lower()
Lower(s) == [i \in DOMAIN s |->
                IF s[i] \in DOMAIN UpperToLower THEN UpperToLower[s[i]] ELSE s[i]]

\* str.isspace() on a character of the ASCII range, the class str.split(),
\* str.strip() and the regex \s use: space, \t, \n, \r, \f, \x0b, \x1c to \x1f
IsSpace(c) == c \in {" ", "\t", "\n", "\r", "\f", "", "", "", "", ""}

\* the regex class \w
IsWordChar(c) == c \in Range(Uppers) \cup Range(Lowers) \cup Digits \cup {"_"}

\* the regex class \d
IsDigit(c) == c \in Digits

\* str.split(): the maximal runs of non-whitespace characters
RECURSIVE SplitFrom(_, _, _, _)
SplitFrom(s, i, cur, acc) ==
    IF i > Len(s) THEN (IF cur = <<>> THEN acc ELSE Append(acc, cur))
    ELSE IF IsSpace(s[i])
         THEN SplitFrom(s, i + 1, <<>>, IF cur = <<>> THEN acc ELSE Append(acc, cur))
         ELSE SplitFrom(s, i + 1, Append(cur, s[i]), acc)

Split(s) == SplitFrom(s, 1, <<>>, <<>>)

\* re.findall(r'\b\w+\b', s): the maximal runs of word characters
RECURSIVE FindWordsFrom(_, _, _, _)
FindWordsFrom(s, i, cur, acc) ==
    IF i > Len(s) THEN (IF cur = <<>> THEN acc ELSE Append(acc, cur))
    ELSE IF IsWordChar(s[i])
         THEN FindWordsFrom(s, i + 1, Append(cur, s[i]), acc)
         ELSE FindWordsFrom(s, i + 1, <<>>, IF cur = <<>> THEN acc ELSE Append(acc, cur))

\* EvidenceRetriever._tokenize
tokenize(text) == FindWordsFrom(Lower(text), 1, <<>>, <<>>)

\* the characters s as one string, as the ids of passages and citations are
RECURSIVE StrOf(_)
StrOf(s) == IF s = <<>> THEN "" ELSE Head(s) \o StrOf(Tail(s))

\* the concatenation of a list of strings
RECURSIVE Concat(_)
Concat(ss) == IF ss = <<>> THEN <<>> ELSE Head(ss) \o Concat(Tail(ss))

\* sep.join(words)
RECURSIVE Join(_, _)
Join(sep, words) ==
    IF words = <<>> THEN <<>>
    ELSE IF Len(words) = 1 THEN words[1]
    ELSE words[1] \o sep \o Join(sep, Tail(words))

\* s[i:].startswith(w), i counted from 1
StartsWithAt(s, i, w) ==
    i + Len(w) - 1 <= Len(s) /\ SubSeq(s, i, i + Len(w) - 1) = w

\* the regex assertion \b just before s[i]
WordBoundary(s, i) ==
    (i > 1 /\ IsWordChar(s[i - 1])) # (i <= Len(s) /\ IsWordChar(s[i]))

\* the strings made of at most n of the given tokens
TokenStrings(tokens, n) ==
    UNION { { Concat(ts) : ts \in [1..m -> tokens] } : m \in 0..n }

-----------------------------------------------------------------------------
(* rank_bm25.BM25Okapi, as index_passages builds it and _retrieve_bm25      *)
(* queries it (k1 = 1.5, b = 0.75, epsilon = 0.25).                         *)

\* the scores of BM25 are computed in units of 1 / Fine and rounded once
Fine == Scale * 100

\* a / b to the nearest integer, b > 0
DivRound(a, b) == (2 * a + b) \div (2 * b)

\* Fine * ln(n) for odd n: ln(x + 0.5) = ln(2x + 1) - ln 2, and the ln 2 cancels in idf
LnOdd(n) ==
    CASE n = 1 -> 0          [] n = 3 -> 1098612  [] n = 5 -> 1609438
      [] n = 7 -> 1945910    [] n = 9 -> 2197225  [] n = 11 -> 2397895
      [] n = 13 -> 2564949   [] n = 15 -> 2708050 [] n = 17 -> 2833213
      [] n = 19 -> 2944439   [] n = 21 -> 3044522

Count(doc, w) == Cardinality({j \in DOMAIN doc : doc[j] = w})

Vocabulary(corpus) == UNION {Range(corpus[i]) : i \in DOMAIN corpus}

\* nd[word]: the number of documents holding the word
DocFreq(corpus, w) == Cardinality({i \in DOMAIN corpus : w \in Range(corpus[i])})

RawIdf(corpus, w) ==
    LnOdd(2 * (Len(corpus) - DocFreq(corpus, w)) + 1) - LnOdd(2 * DocFreq(corpus, w) + 1)

\* BM25Okapi.__init__ divides by len(self.idf): ZeroDivisionError on a corpus without a token
BM25Fails(corpus) == Vocabulary(corpus) = {}

\* self.idf.get(q) or 0, a negative idf having been replaced by
\* epsilon * average_idf, average_idf = idf_sum / len(self.idf) and
\* epsilon = 0.25; in units of 1 / Fine
Idf(corpus, q) ==
    IF q \notin Vocabulary(corpus) THEN 0
    ELSE IF RawIdf(corpus, q) < 0
    THEN DivRound(SumOver([w \in Vocabulary(corpus) |-> RawIdf(corpus, w)],
                          Vocabulary(corpus)),
                  4 * Cardinality(Vocabulary(corpus)))
    ELSE RawIdf(corpus, q)

\* idf * f * (k1 + 1) / (f + k1 * (1 - b + b * doc_len / avgdl)), avgdl = total / N,
\* in units of 1 / Fine
BM25TermFine(corpus, q, i) ==
    LET f     == Count(corpus[i], q)
        total == SumSeq([j \in DOMAIN corpus |-> Len(corpus[j])])
        dl    == Len(corpus[i])
        den   == 8 * f * total + 3 * total + 9 * dl * Len(corpus)
    IN  IF q \in Vocabulary(corpus) /\ RawIdf(corpus, q) < 0
        THEN \* epsilon * idf_sum / len(self.idf), divided once
             DivRound(SumOver([w \in Vocabulary(corpus) |-> RawIdf(corpus, w)],
                              Vocabulary(corpus)) * 5 * f * total,
                      Cardinality(Vocabulary(corpus)) * den)
        ELSE DivRound(Idf(corpus, q) * 20 * f * total, den)

\* the contribution of one query word to the score of document i
BM25Term(corpus, q, i) == DivRound(BM25TermFine(corpus, q, i), Fine \div Scale)

\* BM25Okapi.get_scores(query): one score per document
get_scores(corpus, query) ==
    [i \in DOMAIN corpus |->
        DivRound(SumSeq([j \in DOMAIN query |-> BM25TermFine(corpus, query[j], i)]),
                 Fine \div Scale)]

-----------------------------------------------------------------------------
(* numpy helpers used by the retriever *)

\* np.argsort(scores): indices by ascending score; equal scores keep index order
\* (the insertion sort numpy runs on arrays this short)
argsort(scores) ==
    LET n == Len(scores)
        rank(i) == 1 + Cardinality({j \in 1..n :
                        scores[j] < scores[i] \/ (scores[j] = scores[i] /\ j < i)})
    IN  [p \in 1..n |-> CHOOSE i \in 1..n : rank(i) = p]

\* s[::-1]
Reverse(s) == [i \in 1..Len(s) |-> s[Len(s) + 1 - i]]

\* s[:k], k of either sign
SliceTo(s, k) ==
    IF k >= 0 THEN SubSeq(s, 1, Min(k, Len(s)))
    ELSE SubSeq(s, 1, Max(Len(s) + k, 0))

\* the largest x in lo..hi with P(x), P holding on an initial part of lo..hi
\* that contains lo
RECURSIVE LargestWith(_, _, _)
LargestWith(P(_), lo, hi) ==
    IF lo = hi THEN lo
    ELSE LET mid == (lo + hi + 1) \div 2
         IN  IF P(mid) THEN LargestWith(P, mid, hi) ELSE LargestWith(P, lo, mid - 1)

\* r * r <= n * Scale * Scale, computed on the digits of r to the base Scale
SquareAtMost(r, n) ==
    LET q == r \div Scale
        t == r % Scale
        mid == 2 * q * t + (t * t) \div Scale
        high == q * q + mid \div Scale
    IN  high < n \/ (high = n /\ mid % Scale = 0 /\ (t * t) % Scale = 0)

\* the square root of the integer n in units of 1 / Scale, to the nearest unit:
\* half of the floor of sqrt(4 n), rounded up
Isqrt(n) ==
    LET SquareBelow(r) == SquareAtMost(r, 4 * n)
    IN  (LargestWith(SquareBelow, 0, 2 * (n + 1) * Scale) + 1) \div 2

Dot(u, v) == SumSeq([i \in DOMAIN u |-> u[i] * v[i]])

\* np.linalg.norm, in units of 1 / Scale
Norm(u) == Isqrt(Dot(u, u))

\* np.dot(p, q) / (norm(p) * norm(q)), in units of 1 / Scale to the nearest
\* unit: half of the floor of 2 * Scale * |p.q| / sqrt(p.p * q.q), rounded up;
\* c * sqrt(p.p * q.q) <= 2 * Scale * |p.q| is decided on the squares, the
\* product c * c * p.p * q.q on its digits to the base Scale
Cosine(p, q) ==
    LET d == Dot(p, q)
        pq == Dot(p, p) * Dot(q, q)
        Below(c) == LET low == ((c * c) % Scale) * pq
                        high == ((c * c) \div Scale) * pq + low \div Scale
                    IN  high < 4 * d * d * Scale
                        \/ (high = 4 * d * d * Scale /\ low % Scale = 0)
        twice == LargestWith(Below, 0, 2 * Scale)
    IN  IF d >= 0 THEN (twice + 1) \div 2 ELSE 0 - ((twice + 1) \div 2)

-----------------------------------------------------------------------------
(* Inputs of the retriever *)

\* claim.normalized or claim.text
query_text(claim) ==
    IF claim.normalized # None /\ claim.normalized[1] # <<>>
    THEN claim.normalized[1] ELSE claim.text

PassageIds == <<"p1", "p2", "p3", "p4", "p5">>

PassageTexts == { <<>>, <<"A">>, <<"b", " ", "c">> }

\* the contexts: up to MaxPassages passages, ids unique within a context
PassageLists ==
    UNION { { [i \in 1..n |-> [id |-> PassageIds[i], text |-> t[i]]] :
                t \in [1..n -> PassageTexts] } : n \in 0..MaxPassages }

\* models.Claim: normalized is Optional
ClaimA == [text |-> <<"A">>, span |-> <<0, 1>>, normalized |-> None]
ClaimB == [text |-> <<"A", " ", "b">>, span |-> <<2, 5>>,
           normalized |-> Some(<<"a", " ", "b">>)]

Claims == {ClaimA, ClaimB}

\* the top_k argument of retrieve: None when omitted
TopKArgs == {None} \cup {Some(k) : k \in 0..MaxTopK}

\* embedding vectors the sentence encoder may return
Vectors == { <<3, 4>>, <<1, 0>>, <<-1, 0>> }

\* the texts the encoder is asked to embed: passage texts and query texts
EncoderTexts ==
    PassageTexts \cup {query_text(c) : c \in Claims}
        \cup { <<"a">>, <<"a", " ", "[", "p", "1", "]">> }

\* the sentence encoder: a function of the text; the encoders considered send
\* the texts "A" and "a [p1]" to the first vector, the texts "a b" and "a" to
\* the second and the empty text to the last
Encoders ==
    { e \in [EncoderTexts -> Vectors] :
        /\ e[<<"A">>] = <<3, 4>> /\ e[<<"a", " ", "[", "p", "1", "]">>] = <<3, 4>>
        /\ e[<<"a", " ", "b">>] = <<1, 0>> /\ e[<<"a">>] = <<1, 0>>
        /\ e[<<>>] = <<-1, 0>> }

\* the outcome of a retrieve call: val is the list as returned, held the same
\* list in the caller's hands, whose scores a scorer overwrites in place; again
\* tells that the call repeats the previous call after such an overwrite
NoCall == [call |-> None, exc |-> "none", val |-> <<>>, held |-> <<>>, again |-> FALSE]

Returned(call, v) ==
    [call |-> Some(call), exc |-> "none", val |-> v, held |-> v, again |-> FALSE]
Raised(call, e) ==
    [call |-> Some(call), exc |-> e, val |-> <<>>, held |-> <<>>, again |-> FALSE]

-----------------------------------------------------------------------------
(* EvidenceRetriever *)

\* the snippets of the top-k indices whose score is > 0, in rank order
RECURSIVE snippets_of(_, _, _, _)
snippets_of(top_indices, scores, ps, texts) ==
    IF top_indices = <<>> THEN <<>>
    ELSE LET idx == Head(top_indices)
             rest == snippets_of(Tail(top_indices), scores, ps, texts)
         IN  IF scores[idx] > 0
             THEN <<[passage_id |-> ps[idx].id, text |-> texts[idx],
                     score |-> scores[idx]]>> \o rest
             ELSE rest

\* seeded fault: the ascending order of argsort is kept
top_indices_ascending(scores, k) == SliceTo(argsort(scores), k)

\* np.argsort(scores)[::-1][:k]
top_indices_of(scores, k) == SliceTo(Reverse(argsort(scores)), k)

\* EvidenceRetriever._retrieve_bm25; self.bm25 is None after a failed build
retrieve_bm25(call, claim, k) ==
    IF bm25.tag # "BM25Okapi" THEN Raised(call, "AttributeError")
    ELSE LET scores == get_scores(bm25.corpus, tokenize(query_text(claim)))
         IN  Returned(call, snippets_of(top_indices_of(scores, k), scores,
                                        passages, passage_texts))

\* EvidenceRetriever._retrieve_embedding
retrieve_embedding(call, claim, k) ==
    LET query_embedding == encoder[query_text(claim)]
        similarities == [i \in DOMAIN passage_embeddings |->
                            Cosine(passage_embeddings[i], query_embedding)]
    IN  Returned(call, snippets_of(top_indices_of(similarities, k), similarities,
                                   passages, passage_texts))

\* k = top_k or self.top_k
effective_k(tk) == IF tk # None /\ tk[1] # 0 THEN tk[1] ELSE top_k

\* seeded fault: the index is kept when the new list is as long as the old one
index_passages_same_size(ps) ==
    /\ passages' = ps
    /\ passage_texts' = [i \in DOMAIN ps |-> ps[i].text]
    /\ IF ps = <<>> \/ Len(ps) = Len(passages)
       THEN UNCHANGED <<bm25, passage_embeddings>>
       ELSE IF method = "bm25"
       THEN LET tokenized_passages == [i \in DOMAIN ps |-> Split(Lower(ps[i].text))]
            IN  /\ bm25' = IF BM25Fails(tokenized_passages)
                           THEN [tag |-> "None", corpus |-> <<>>]
                           ELSE [tag |-> "BM25Okapi", corpus |-> tokenized_passages]
                /\ UNCHANGED passage_embeddings
       ELSE /\ passage_embeddings' = [i \in DOMAIN ps |-> encoder[ps[i].text]]
            /\ UNCHANGED bm25
    /\ UNCHANGED <<method, top_k, encoder>>

\* EvidenceRetriever.index_passages
index_passages(ps) ==
    /\ passages' = ps
    /\ passage_texts' = [i \in DOMAIN ps |-> ps[i].text]
    /\ IF ps = <<>>
       THEN UNCHANGED <<bm25, passage_embeddings>>
       ELSE IF method = "bm25"
       THEN LET tokenized_passages == [i \in DOMAIN ps |-> Split(Lower(ps[i].text))]
            IN  /\ bm25' = IF BM25Fails(tokenized_passages)
                           THEN [tag |-> "None", corpus |-> <<>>]
                           ELSE [tag |-> "BM25Okapi", corpus |-> tokenized_passages]
                /\ UNCHANGED passage_embeddings
       ELSE /\ passage_embeddings' = [i \in DOMAIN ps |-> encoder[ps[i].text]]
            /\ UNCHANGED bm25
    /\ UNCHANGED <<method, top_k, encoder>>

\* seeded fault: retrieve without the early return on an empty index
retrieve_unguarded(claim, tk) ==
    LET call == [claim |-> claim, top_k |-> tk]
        out == IF method = "bm25"
               THEN retrieve_bm25(call, claim, effective_k(tk))
               ELSE retrieve_embedding(call, claim, effective_k(tk))
    IN  /\ ret' = [out EXCEPT !.again = (ret.call = Some(call) /\ ret.held # ret.val)]
        /\ UNCHANGED <<method, top_k, passages, passage_texts, bm25,
                       passage_embeddings, encoder>>

\* seeded fault: a repeated call hands out the snippet objects of the previous one
retrieve_cached(claim, tk) ==
    LET call == [claim |-> claim, top_k |-> tk]
        out == IF passages = <<>> THEN Returned(call, <<>>)
               ELSE IF ret.call = Some(call) THEN Returned(call, ret.held)
               ELSE IF method = "bm25"
               THEN retrieve_bm25(call, claim, effective_k(tk))
               ELSE retrieve_embedding(call, claim, effective_k(tk))
    IN  /\ ret' = [out EXCEPT !.again = (ret.call = Some(call) /\ ret.held # ret.val)]
        /\ UNCHANGED <<method, top_k, passages, passage_texts, bm25,
                       passage_embeddings, encoder>>

\* EvidenceRetriever.retrieve: the outcome is left in ret
retrieve(claim, tk) ==
    LET call == [claim |-> claim, top_k |-> tk]
        out == IF passages = <<>> THEN Returned(call, <<>>)
               ELSE IF method = "bm25"
               THEN retrieve_bm25(call, claim, effective_k(tk))
               ELSE retrieve_embedding(call, claim, effective_k(tk))
    IN  /\ ret' = [out EXCEPT !.again = (ret.call = Some(call) /\ ret.held # ret.val)]
        /\ UNCHANGED <<method, top_k, passages, passage_texts, bm25,
                       passage_embeddings, encoder>>

\* what retrieve(claim) returns on the current index, when it returns
retrieved(claim) ==
    LET call == [claim |-> claim, top_k |-> None]
    IN  IF passages = <<>> THEN <<>>
        ELSE IF method = "bm25"
        THEN retrieve_bm25(call, claim, effective_k(None)).val
        ELSE retrieve_embedding(call, claim, effective_k(None)).val

\* EvidenceRetriever.__init__ with a valid method
RetrieverInit ==
    /\ \/ method = "bm25" /\ encoder = None
       \/ method = "embedding" /\ encoder \in Encoders
    /\ top_k \in 1..MaxTopK
    /\ passages = <<>>
    /\ passage_texts = <<>>
    /\ bm25 = [tag |-> "unset", corpus |-> <<>>]
    /\ passage_embeddings = <<>>
    /\ ret = NoCall

\* method names handed to a constructor
MethodNames == {"bm25", "embedding", "BM25", "hybrid", ""}

\* seeded fault: an unknown method name falls back to bm25
retriever_new_fallback(method_name) ==
    [exc |-> "none", method |-> IF method_name = "embedding" THEN "embedding" ELSE "bm25"]

\* EvidenceRetriever.__init__ as a call: the exception raised, or the method of
\* the retriever created
retriever_new(method_name) ==
    IF method_name \in {"bm25", "embedding"}
    THEN [exc |-> "none", method |-> method_name]
    ELSE [exc |-> "ValueError", method |-> "none"]

\* EvidenceCoverageEvaluator.__init__ as a call, on an installation whose
\* models load: the exception of EvidenceRetriever(...) propagates
evaluator_new(retrieval_method) == retriever_new(retrieval_method)

\* no interleaved evaluation is modelled
ParallelIdle ==
    /\ heap = <<>>
    /\ evidence_refs = <<>>
    /\ task = <<>>

\* no function call is modelled
FunctionIdle ==
    /\ f_op = "none"
    /\ f_arg = <<>>
    /\ f_done = FALSE
    /\ f_out = <<>>

IndexPassages == \E ps \in PassageLists : index_passages(ps) /\ ret' = NoCall

Retrieve == \E claim \in Claims, tk \in TopKArgs : retrieve(claim, tk)

-----------------------------------------------------------------------------
(* Scorer inputs and results *)

\* str: needle in hay
Contains(hay, needle) ==
    \E i \in 0..(Len(hay) - Len(needle)) : SubSeq(hay, i + 1, i + Len(needle)) = needle

\* scores the retriever left on the snippets handed to a scorer, by rank
RetrievalScores == <<5108, 3522, 478, 250, 120>>

EvidenceLists ==
    UNION { { [i \in 1..n |-> [passage_id |-> PassageIds[i], text |-> t[i],
                               score |-> RetrievalScores[i]]] :
                t \in [1..n -> PassageTexts] } : n \in 0..MaxEvidence }

\* thresholds handed to score_claim; the evaluator's default is 0.7
Thresholds == {0, 7 * (Scale \div 10)}

\* entailment probabilities the classifier may return
ProbLevels == {2 * (Scale \div 10), 7 * (Scale \div 10), 9 * (Scale \div 10)}

\* the values k / Scale halfway between two hundredths that f"{x:.2f}" rounds
\* down: the binary float of k / Scale lies below the decimal, or it is the
\* decimal and the hundredth below is even (0.125, 0.625)
HalfwayDown ==
    { 150, 450, 750, 1050, 1250, 1450, 1550, 1750, 1850, 2050, 2150, 2350, 2450,
      2850, 2950, 3050, 3450, 3550, 3650, 4150, 4250, 4350, 4750, 4850, 4950, 5650,
      5750, 5850, 5950, 6050, 6150, 6250, 6950, 7050, 7150, 7250, 7350, 7450, 8150,
      8250, 8350, 8450, 8550, 8650, 9450, 9550, 9650, 9750, 9850, 9950 }

\* f"{x:.2f}": x in hundredths
Format2f(x) ==
    IF x \in HalfwayDown THEN (x * 100) \div Scale ELSE (x * 100 + Scale \div 2) \div Scale

Info(msg, arg) == [msg |-> msg, arg |-> arg]

\* models.ClaimAnalysis
ClaimAnalysis(claim, supported, support_score, supporting_snippets, missing_info) ==
    [claim |-> claim, supported |-> supported, support_score |-> support_score,
     supporting_snippets |-> supporting_snippets, missing_info |-> missing_info]

NoAnalysis == ClaimAnalysis(ClaimA, FALSE, 0, <<>>, None)

\* outcome of a score_claim call: calls counts the invocations of the classifier
\* or of the judge service
Scored(analysis, calls) ==
    [state |-> "returned", exc |-> "none", val |-> analysis, calls |-> calls]
ScoreRaised(e, calls) ==
    [state |-> "raised", exc |-> e, val |-> NoAnalysis, calls |-> calls]
NotScored == [state |-> "pending", exc |-> "none", val |-> NoAnalysis, calls |-> 0]

\* seeded fault: the early return leaves missing_info unset
no_evidence_silent(claim) == ClaimAnalysis(claim, FALSE, 0, <<>>, None)

\* the early return of both scorers on an empty evidence list
no_evidence(claim) ==
    ClaimAnalysis(claim, FALSE, 0, <<>>,
                  Some(Info("No evidence snippets provided", None)))

\* seeded fault: the references are sorted by ascending score
sort_by_score_asc(refs, evidence) ==
    LET n == Len(refs)
        rank(p) == 1 + Cardinality({q \in 1..n :
                        evidence[refs[q]].score < evidence[refs[p]].score
                        \/ (evidence[refs[q]].score = evidence[refs[p]].score /\ q < p)})
    IN  [r \in 1..n |-> refs[CHOOSE p \in 1..n : rank(p) = r]]

\* list.sort(key=score, reverse=True) on references into evidence: stable
sort_by_score_desc(refs, evidence) ==
    LET n == Len(refs)
        rank(p) == 1 + Cardinality({q \in 1..n :
                        evidence[refs[q]].score > evidence[refs[p]].score
                        \/ (evidence[refs[q]].score = evidence[refs[p]].score /\ q < p)})
    IN  [r \in 1..n |-> refs[CHOOSE p \in 1..n : rank(p) = r]]

-----------------------------------------------------------------------------
(* NLIScorer *)

\* NLIScorer._compute_entailment(premise, hypothesis): the classifier's
\* entailment probability, entail its map from text pairs to probabilities
compute_entailment(entail, premise, hypothesis) == entail[<<premise, hypothesis>>]

\* the loop of NLIScorer.score_claim over evidence_snippets
RECURSIVE nli_loop(_, _, _, _, _)
nli_loop(claim_text, threshold, entail, i, st) ==
    IF i > Len(st.evidence) THEN st
    ELSE LET snippet == st.evidence[i]
             entailment_prob == compute_entailment(entail, claim_text, snippet.text)
             meets == entailment_prob >= threshold
         IN  nli_loop(claim_text, threshold, entail, i + 1,
                [best_score |-> IF entailment_prob > st.best_score
                                THEN entailment_prob ELSE st.best_score,
                 best_snippets |-> IF meets THEN Append(st.best_snippets, i)
                                   ELSE st.best_snippets,
                 evidence |-> IF meets
                              THEN [st.evidence EXCEPT ![i].score = entailment_prob]
                              ELSE st.evidence,
                 calls |-> st.calls + 1])

\* seeded fault: a best score equal to the threshold does not support
nli_score_claim_strict(claim, evidence_snippets, threshold, entail) ==
    IF evidence_snippets = <<>>
    THEN [out |-> Scored(no_evidence(claim), 0), evidence |-> evidence_snippets]
    ELSE LET st == nli_loop(query_text(claim), threshold, entail, 1,
                            [best_score |-> 0, best_snippets |-> <<>>,
                             evidence |-> evidence_snippets, calls |-> 0])
             best == sort_by_score_desc(st.best_snippets, st.evidence)
             supported == st.best_score > threshold
             missing_info ==
                 IF ~supported
                 THEN Some(Info("Claim not supported by evidence (best score: %.2f)",
                                Some(Format2f(st.best_score))))
                 ELSE None
         IN  [out |-> Scored(ClaimAnalysis(claim, supported, st.best_score,
                                [r \in DOMAIN best |-> st.evidence[best[r]]],
                                missing_info), st.calls),
              evidence |-> st.evidence]

\* NLIScorer.score_claim: [out, evidence], evidence with the scores overwritten
nli_score_claim(claim, evidence_snippets, threshold, entail) ==
    IF evidence_snippets = <<>>
    THEN [out |-> Scored(no_evidence(claim), 0), evidence |-> evidence_snippets]
    ELSE LET st == nli_loop(query_text(claim), threshold, entail, 1,
                            [best_score |-> 0, best_snippets |-> <<>>,
                             evidence |-> evidence_snippets, calls |-> 0])
             best == sort_by_score_desc(st.best_snippets, st.evidence)
             supported == st.best_score >= threshold
             missing_info ==
                 IF ~supported
                 THEN Some(Info("Claim not supported by evidence (best score: %.2f)",
                                Some(Format2f(st.best_score))))
                 ELSE None
         IN  [out |-> Scored(ClaimAnalysis(claim, supported, st.best_score,
                                [r \in DOMAIN best |-> st.evidence[best[r]]],
                                missing_info), st.calls),
              evidence |-> st.evidence]

\* NLIScorer.score_claim: the positions in evidence_snippets of the snippets it
\* returns as supporting_snippets, in their order
supporting_refs(claim, evidence_snippets, threshold, entail) ==
    IF evidence_snippets = <<>> THEN <<>>
    ELSE LET st == nli_loop(query_text(claim), threshold, entail, 1,
                            [best_score |-> 0, best_snippets |-> <<>>,
                             evidence |-> evidence_snippets, calls |-> 0])
         IN  sort_by_score_desc(st.best_snippets, st.evidence)

\* the text pairs score_claim hands to the classifier
entail_pairs(claim, evidence_snippets) ==
    {<<query_text(claim), evidence_snippets[i].text>> : i \in DOMAIN evidence_snippets}

\* the loop of NLIScorer.score_batch: score_claim on evidence_dict.get(claim, [])
\* for the claims i.., the scores overwritten on the lists of evidence_dict
RECURSIVE batch_loop(_, _, _, _, _)
batch_loop(cl, threshold, entail, i, st) ==
    IF i > Len(cl) THEN st
    ELSE LET claim == cl[i]
             listed == claim \in DOMAIN st.evidence_dict
             evidence == IF listed THEN st.evidence_dict[claim] ELSE <<>>
             r == nli_score_claim(claim, evidence, threshold, entail)
         IN  batch_loop(cl, threshold, entail, i + 1,
                [results |-> Append(st.results, r.out.val),
                 evidence_dict |-> IF listed
                                   THEN [st.evidence_dict EXCEPT ![claim] = r.evidence]
                                   ELSE st.evidence_dict])

\* NLIScorer.score_batch(claims, evidence_dict, threshold): [results,
\* evidence_dict], evidence_dict as the call leaves it
score_batch(cl, evidence, threshold, entail) ==
    batch_loop(cl, threshold, entail, 1, [results |-> <<>>, evidence_dict |-> evidence])

\* a claim the evidence_dict handed to score_batch does not list
ClaimZ == [text |-> <<"z", "z">>, span |-> <<6, 8>>, normalized |-> None]

\* f_arg holds the arguments of score_batch: up to MaxClaims claims, an
\* evidence_dict over some of them whose lists hold passages of the text "A",
\* and the classifier
BatchInputs ==
    LET lists == { e \in EvidenceLists : \A k \in DOMAIN e : e[k].text = <<"A">> }
        dicts == UNION { [D -> lists] : D \in SUBSET Claims }
        pairs == { <<query_text(c), <<"A">> >> : c \in Claims }
    IN  \E cl \in UNION { [1..n -> Claims \cup {ClaimZ}] : n \in 0..MaxClaims },
           d \in dicts, t \in Thresholds, e \in [pairs -> ProbLevels] :
            f_arg = [claims |-> cl, evidence_dict |-> d, threshold |-> t, entail |-> e]

-----------------------------------------------------------------------------
(* OllamaJudge *)

\* the quotes a verdict may list under supporting_texts
Quotes == { <<"a">>, <<"z">> }

QuoteLists == UNION { [1..n -> Quotes] : n \in 0..MaxQuotes }

Absent == [kind |-> "absent", val |-> 0]
AbsentList == [kind |-> "absent", val |-> <<>>]
AbsentStr == [kind |-> "absent", val |-> ""]

\* a Python value as json.loads returns it: py is its type; the other fields are
\* the keys of a dict the judge reads, each absent or holding a JSON value
PyValue(py, supported, confidence, supporting_texts, missing_info, mentions) ==
    [py |-> py, supported |-> supported, confidence |-> confidence,
     supporting_texts |-> supporting_texts, missing_info |-> missing_info,
     mentions |-> mentions]

\* JSON objects: mentions tells whether the text holds "true" or "supported"
JsonObjects ==
    { PyValue("dict", sup, conf, texts, info, sup # "absent") :
        sup \in {"absent", "true", "false"},
        conf \in {Absent, [kind |-> "float", val |-> 9 * (Scale \div 10)],
                  [kind |-> "float", val |-> 15 * (Scale \div 10)]},
        texts \in {AbsentList, [kind |-> "null", val |-> <<>>]}
                    \cup {[kind |-> "list", val |-> q] : q \in QuoteLists},
        info \in {AbsentStr, [kind |-> "str", val |-> "more evidence needed"]} }

\* JSON of another shape: a list, a number
JsonOthers ==
    { PyValue(py, "absent", Absent, AbsentList, AbsentStr, FALSE) : py \in {"list", "float"} }

\* text that is no JSON
NotJson ==
    { PyValue("invalid", "absent", Absent, AbsentList, AbsentStr, m) : m \in BOOLEAN }

\* the text of a response: a payload, bare or inside a Markdown fence
\* (``` alone, ```json, or ``` with another tag); tail tells whether text that
\* follows the closing fence holds "true" or "supported"
Responses ==
    { [fence |-> "none", body |-> b, tail |-> FALSE] :
        b \in JsonObjects \cup JsonOthers \cup NotJson }
    \cup { [fence |-> f, body |-> b, tail |-> t] :
              f \in {"plain", "json", "other"},
              b \in JsonObjects \cup JsonOthers \cup NotJson,
              t \in BOOLEAN }

\* what _call_ollama meets: a failure (connection, timeout, HTTP status) or a response
ServiceOutcomes ==
    { [fails |-> TRUE, response |-> [fence |-> "none",
            body |-> PyValue("invalid", "absent", Absent, AbsentList, AbsentStr, FALSE),
            tail |-> FALSE]] }
    \cup { [fails |-> FALSE, response |-> r] : r \in Responses }

\* OllamaJudge._parse_response: response.split("```")[1] keeps what stands
\* between the fences, a leading "json" is cut; json.loads; only JSONDecodeError
\* is caught, and the fallback searches the text that was handed to json.loads
parse_response(response) ==
    IF response.fence # "other" /\ response.body.py # "invalid"
    THEN response.body
    ELSE PyValue("dict",
                 IF response.body.mentions THEN "true" ELSE "false",
                 [kind |-> "float", val |-> Scale \div 2],
                 [kind |-> "list", val |-> <<>>],
                 [kind |-> "str", val |-> "Failed to parse LLM response"],
                 response.body.mentions)

\* text.lower() in snippet.text.lower() or snippet.text.lower() in text.lower()
quote_matches(text, snippet) ==
    \/ Contains(Lower(snippet.text), Lower(text))
    \/ Contains(Lower(text), Lower(snippet.text))

\* the loop of OllamaJudge.score_claim over supporting_texts: the first snippet a
\* quote matches gets its score overwritten and is appended
RECURSIVE judge_loop(_, _, _, _)
judge_loop(supporting_texts, score, t, st) ==
    IF t > Len(supporting_texts) THEN st
    ELSE LET hits == {j \in DOMAIN st.evidence :
                        quote_matches(supporting_texts[t], st.evidence[j])}
         IN  IF hits = {} THEN judge_loop(supporting_texts, score, t + 1, st)
             ELSE LET j == CHOOSE h \in hits : \A g \in hits : h <= g
                  IN  judge_loop(supporting_texts, score, t + 1,
                        [evidence |-> [st.evidence EXCEPT ![j].score = score],
                         supporting_snippets |-> Append(st.supporting_snippets, j)])

\* score_claim of both judges from _parse_response on, response the text the
\* service returned after calls requests
judge_verdict(claim, evidence_snippets, response, calls) ==
         LET judgment == parse_response(response)
         IN  IF judgment.py # "dict"
             THEN [out |-> ScoreRaised("AttributeError", calls), evidence |-> evidence_snippets]
             ELSE IF judgment.supporting_texts.kind = "null"
             THEN [out |-> ScoreRaised("TypeError", calls), evidence |-> evidence_snippets]
             ELSE
             LET supported == judgment.supported = "true"
                 support_score == IF judgment.confidence.kind = "float"
                                  THEN judgment.confidence.val
                                  ELSE IF supported THEN Scale ELSE 0
                 missing_info == IF judgment.missing_info.kind = "str"
                                 THEN Some(Info(judgment.missing_info.val, None))
                                 ELSE None
                 st == judge_loop(judgment.supporting_texts.val,
                                  IF supported THEN support_score ELSE 0, 1,
                                  [evidence |-> evidence_snippets,
                                   supporting_snippets |-> <<>>])
                 top == supported /\ st.supporting_snippets = <<>>
                 evidence == IF top THEN [st.evidence EXCEPT ![1].score = support_score]
                             ELSE st.evidence
                 refs == IF top THEN <<1>> ELSE st.supporting_snippets
             IN  [out |-> Scored(ClaimAnalysis(claim, supported, support_score,
                                    [r \in DOMAIN refs |-> evidence[refs[r]]],
                                    missing_info), calls),
                  evidence |-> evidence]

\* OllamaJudge.score_claim, service the outcome of the call to the judge service:
\* _call_ollama turns every failure into RuntimeError
judge_score_claim(claim, evidence_snippets, threshold, service) ==
    IF evidence_snippets = <<>>
    THEN [out |-> Scored(no_evidence(claim), 0), evidence |-> evidence_snippets]
    ELSE IF service.fails
    THEN [out |-> ScoreRaised("RuntimeError", 1), evidence |-> evidence_snippets]
    ELSE judge_verdict(claim, evidence_snippets, service.response, 1)

\* what the client of LLMJudge meets on its requests: a response, or a failure
\* the client raises as ConnectionError; of two requests the second is made
\* only after the first failed
ClientOutcomes ==
    LET bare == { r \in Responses : r.fence = "none" }
        failure == CHOOSE o \in ServiceOutcomes : o.fails
    IN  { <<[fails |-> FALSE, response |-> r]>> : r \in bare }
        \cup { <<failure, [fails |-> FALSE, response |-> r]>> : r \in bare }
        \cup { <<failure>>, <<failure, failure>> }

\* LLMJudge.score_claim: _call_llm of the provider "openai" repeats a failed
\* request once without response_format, that of "anthropic" asks once; the
\* exception of the last request leaves score_claim
llm_score_claim(provider, claim, evidence_snippets, threshold, service) ==
    LET asked == IF provider = "openai" /\ service[1].fails THEN 2 ELSE 1
    IN  IF evidence_snippets = <<>>
        THEN [out |-> Scored(no_evidence(claim), 0), evidence |-> evidence_snippets]
        ELSE IF service[asked].fails
        THEN [out |-> ScoreRaised("ConnectionError", asked), evidence |-> evidence_snippets]
        ELSE judge_verdict(claim, evidence_snippets, service[asked].response, asked)

-----------------------------------------------------------------------------
(* A scorer object and one score_claim call *)

ScorerInit ==
    /\ strategy \in {"nli", "judge", "openai", "anthropic"}
    /\ s_claim \in Claims
    /\ s_evidence \in EvidenceLists
    /\ s_threshold \in Thresholds
    /\ s_out = NotScored
    /\ s_reply = <<>>

\* no scorer call is modelled
ScorerIdle ==
    /\ strategy = "nli"
    /\ s_claim = ClaimA
    /\ s_evidence = <<>>
    /\ s_threshold = 0
    /\ s_out = NotScored
    /\ s_reply = <<>>

\* no retriever is modelled
RetrieverIdle ==
    /\ method = "bm25"
    /\ encoder = None
    /\ top_k = 1
    /\ passages = <<>>
    /\ passage_texts = <<>>
    /\ bm25 = [tag |-> "unset", corpus |-> <<>>]
    /\ passage_embeddings = <<>>
    /\ ret = NoCall

NLIScoreClaim ==
    /\ strategy = "nli"
    /\ s_out.state = "pending"
    /\ \E entail \in [entail_pairs(s_claim, s_evidence) -> ProbLevels] :
         LET r == nli_score_claim(s_claim, s_evidence, s_threshold, entail)
         IN  s_out' = r.out /\ s_evidence' = r.evidence /\ s_reply' = entail
    /\ UNCHANGED <<strategy, s_claim, s_threshold>>

JudgeScoreClaim ==
    /\ strategy = "judge"
    /\ s_out.state = "pending"
    /\ \E service \in ServiceOutcomes :
         LET r == judge_score_claim(s_claim, s_evidence, s_threshold, service)
         IN  s_out' = r.out /\ s_evidence' = r.evidence /\ s_reply' = service
    /\ UNCHANGED <<strategy, s_claim, s_threshold>>

\* LLMJudge(provider = strategy).score_claim(s_claim, s_evidence, s_threshold)
LLMJudgeScoreClaim ==
    /\ strategy \in {"openai", "anthropic"}
    /\ s_out.state = "pending"
    /\ \E service \in {o \in ClientOutcomes :
                          Len(o) = IF strategy = "openai" /\ o[1].fails THEN 2 ELSE 1} :
         LET r == llm_score_claim(strategy, s_claim, s_evidence, s_threshold, service)
         IN  s_out' = r.out /\ s_evidence' = r.evidence /\ s_reply' = service
    /\ UNCHANGED <<strategy, s_claim, s_threshold>>

-----------------------------------------------------------------------------
(* ClaimExtractor *)

\* str.strip()
RECURSIVE LStrip(_)
LStrip(s) == IF s # <<>> /\ IsSpace(Head(s)) THEN LStrip(Tail(s)) ELSE s

RECURSIVE RStrip(_)
RStrip(s) ==
    IF s # <<>> /\ IsSpace(s[Len(s)]) THEN RStrip(SubSeq(s, 1, Len(s) - 1)) ELSE s

Strip(s) == RStrip(LStrip(s))

\* the last index of the run of whitespace that starts at s[p]
RECURSIVE SpaceRunEnd(_, _)
SpaceRunEnd(s, p) ==
    IF p + 1 <= Len(s) /\ IsSpace(s[p + 1]) THEN SpaceRunEnd(s, p + 1) ELSE p

\* the alternatives of the pattern conjunctions, in order
Conjunctions == << <<"a", "n", "d">>, <<"b", "u", "t">>, <<"o", "r">>,
                   <<"n", "o", "r">>, <<"y", "e", "t">>, <<"s", "o">> >>

\* the match of r'\s+(and|but|or|nor|yet|so)\s+' that starts at s[p]: its
\* conjunction and its last index, or None
ConjunctionMatchAt(s, p) ==
    IF ~IsSpace(s[p]) THEN None
    ELSE LET w == SpaceRunEnd(s, p) + 1
             hits == {n \in DOMAIN Conjunctions :
                        /\ StartsWithAt(s, w, Conjunctions[n])
                        /\ w + Len(Conjunctions[n]) <= Len(s)
                        /\ IsSpace(s[w + Len(Conjunctions[n])])}
         IN  IF hits = {} THEN None
             ELSE LET n == CHOOSE h \in hits : \A g \in hits : h <= g
                  IN  Some([conj |-> Conjunctions[n],
                            last |-> SpaceRunEnd(s, w + Len(Conjunctions[n]))])

\* re.split(conjunctions, s) from s[p] on, start the first index of the running
\* part: the parts alternate text, conjunction, text
RECURSIVE SplitConjunctions(_, _, _)
SplitConjunctions(s, p, start) ==
    IF p > Len(s) THEN <<SubSeq(s, start, Len(s))>>
    ELSE LET m == ConjunctionMatchAt(s, p)
         IN  IF m = None THEN SplitConjunctions(s, p + 1, start)
             ELSE <<SubSeq(s, start, p - 1), m[1].conj>>
                  \o SplitConjunctions(s, m[1].last + 1, m[1].last + 1)

\* the last index of the match of r',\s+(?![0-9])' that starts at s[p], or 0:
\* the whitespace run is taken whole, or without its last character when a digit
\* follows it
CommaMatchEnd(s, p) ==
    IF ~(s[p] = "," /\ p + 1 <= Len(s) /\ IsSpace(s[p + 1])) THEN 0
    ELSE LET q == SpaceRunEnd(s, p + 1)
         IN  IF q + 1 > Len(s) \/ ~IsDigit(s[q + 1]) THEN q
             ELSE IF q - 1 >= p + 1 THEN q - 1
             ELSE 0

\* re.split(r',\s+(?![0-9])', s) from s[p] on
RECURSIVE SplitCommas(_, _, _)
SplitCommas(s, p, start) ==
    IF p > Len(s) THEN <<SubSeq(s, start, Len(s))>>
    ELSE LET e == CommaMatchEnd(s, p)
         IN  IF e = 0 THEN SplitCommas(s, p + 1, start)
             ELSE <<SubSeq(s, start, p - 1)>> \o SplitCommas(s, e + 1, e + 1)

\* the last index of the run of digits that starts at s[p]
RECURSIVE DigitRunEnd(_, _)
DigitRunEnd(s, p) ==
    IF p + 1 <= Len(s) /\ IsDigit(s[p + 1]) THEN DigitRunEnd(s, p + 1) ELSE p

\* re.match(r'^\s*([0-9]+|[a-z])\.\s+', s)
MatchesEnumeration(s) ==
    LET t == LStrip(s)
    IN  /\ t # <<>>
        /\ IsDigit(t[1]) \/ t[1] \in Range(Lowers)
        /\ LET d == IF IsDigit(t[1]) THEN DigitRunEnd(t, 1) ELSE 1
           IN  d + 2 <= Len(t) /\ t[d + 1] = "." /\ IsSpace(t[d + 2])

\* [p.strip() for p in parts if p.strip()]
RECURSIVE StripParts(_)
StripParts(parts) ==
    IF parts = <<>> THEN <<>>
    ELSE IF Strip(Head(parts)) # <<>>
         THEN <<Strip(Head(parts))>> \o StripParts(Tail(parts))
         ELSE StripParts(Tail(parts))

\* ClaimExtractor._split_on_commas_and_enums
split_on_commas_and_enums(sentence) ==
    IF MatchesEnumeration(sentence) THEN <<sentence>>
    ELSE StripParts(SplitCommas(sentence, 1, 1))

\* the loop of _split_sentence over the parts: [sub_claims, current]
RECURSIVE rebuild_parts(_, _, _)
rebuild_parts(parts, i, st) ==
    IF i > Len(parts) THEN st
    ELSE IF i + 1 <= Len(parts)
         THEN rebuild_parts(parts, i + 2,
                [sub_claims |-> Append(st.sub_claims, Strip(st.current)),
                 current |-> parts[i] \o <<" ">> \o parts[i + 1]])
         ELSE rebuild_parts(parts, i + 2,
                [sub_claims |-> st.sub_claims,
                 current |-> st.current \o <<" ">> \o parts[i]])

\* ClaimExtractor._split_sentence
split_sentence(sentence) ==
    LET stripped == Strip(sentence)
        parts == SplitConjunctions(stripped, 1, 1)
        st == rebuild_parts(parts, 2, [sub_claims |-> <<>>, current |-> parts[1]])
        sub_claims == IF Strip(st.current) # <<>>
                      THEN Append(st.sub_claims, Strip(st.current))
                      ELSE st.sub_claims
    IN  IF stripped = <<>> THEN <<>>
        ELSE IF Len(parts) = 1 THEN split_on_commas_and_enums(stripped)
        ELSE IF Len(sub_claims) > 1 THEN sub_claims
        ELSE split_on_commas_and_enums(stripped)

\* re.sub(r'(\d),(\d)', r'\1\2', s): the matches are found left to right and do
\* not overlap
RECURSIVE SubDigitComma(_, _)
SubDigitComma(s, i) ==
    IF i > Len(s) THEN <<>>
    ELSE IF i + 2 <= Len(s) /\ IsDigit(s[i]) /\ s[i + 1] = "," /\ IsDigit(s[i + 2])
         THEN <<s[i], s[i + 2]>> \o SubDigitComma(s, i + 3)
         ELSE <<s[i]>> \o SubDigitComma(s, i + 1)

\* re.sub(r'\bw\b', repl, s)
RECURSIVE SubWord(_, _, _, _)
SubWord(s, i, w, repl) ==
    IF i > Len(s) THEN <<>>
    ELSE IF StartsWithAt(s, i, w) /\ WordBoundary(s, i) /\ WordBoundary(s, i + Len(w))
         THEN repl \o SubWord(s, i + Len(w), w, repl)
         ELSE <<s[i]>> \o SubWord(s, i + 1, w, repl)

\* unit_mappings, in the order of the dict
unit_mappings ==
    << <<<<"k", "m">>, <<"k", "i", "l", "o", "m", "e", "t", "e", "r">>>>,
       <<<<"m", "i">>, <<"m", "i", "l", "e">>>>,
       <<<<"k", "g">>, <<"k", "i", "l", "o", "g", "r", "a", "m">>>>,
       <<<<"l", "b">>, <<"p", "o", "u", "n", "d">>>>,
       <<<<"h", "r">>, <<"h", "o", "u", "r">>>>,
       <<<<"m", "i", "n">>, <<"m", "i", "n", "u", "t", "e">>>>,
       <<<<"s", "e", "c">>, <<"s", "e", "c", "o", "n", "d">>>> >>

\* the loop over unit_mappings, from the n-th mapping on
RECURSIVE SubUnits(_, _)
SubUnits(s, n) ==
    IF n > Len(unit_mappings) THEN s
    ELSE SubUnits(SubWord(s, 1, unit_mappings[n][1], unit_mappings[n][2]), n + 1)

\* ClaimExtractor._normalize_claim
normalize_claim(claim) ==
    Join(<<" ">>, Split(SubUnits(SubDigitComma(Lower(claim), 1), 1)))

\* strings handed to _normalize_claim
NormalizeInputs ==
    TokenStrings({ <<"1">>, <<",">>, <<" ">>, <<"\r">>, <<"k", "m">>, <<"M", "i", "n">> },
                 MaxTokens)

\* sentences handed to _split_sentence
SplitInputs ==
    TokenStrings({ <<"x">>, <<" ">>, <<"a", "n", "d">>, <<"s", "o">>, <<",">> }, MaxTokens)

\* sentences handed to _split_on_commas_and_enums
CommaInputs ==
    TokenStrings({ <<"x">>, <<",">>, <<" ">>, <<"1">>, <<".">> }, MaxTokens)

\* str.find(needle, from): the lowest offset at or after from where needle
\* occurs in hay, -1 when there is none
Find(hay, needle, from) ==
    LET hits == {i \in from..(Len(hay) - Len(needle)) :
                    SubSeq(hay, i + 1, i + Len(needle)) = needle}
    IN  IF hits = {} THEN -1 ELSE CHOOSE i \in hits : \A j \in hits : i <= j

\* seeded fault: the offset of a failed search is kept
claim_span_no_fallback(answer_text, claim_text, sentence_start) ==
    LET claim_start == Find(answer_text, claim_text, sentence_start)
    IN  <<claim_start, claim_start + Len(claim_text)>>

\* the span of a sub-claim: found from the start of its sentence on, or placed
\* at the start of the sentence
claim_span(answer_text, claim_text, sentence_start) ==
    LET found == Find(answer_text, claim_text, sentence_start)
        claim_start == IF found = -1 THEN sentence_start ELSE found
    IN  <<claim_start, claim_start + Len(claim_text)>>

\* the claims of the sub-claims k.. of one sentence, each with the start offset
\* of the sentence
RECURSIVE sentence_claims(_, _, _, _)
sentence_claims(answer_text, sub_claims, sentence_start, k) ==
    IF k > Len(sub_claims) THEN <<>>
    ELSE LET claim_text == Strip(sub_claims[k])
             rest == sentence_claims(answer_text, sub_claims, sentence_start, k + 1)
         IN  IF claim_text = <<>> THEN rest
             ELSE << [claim |-> [text |-> claim_text,
                                 span |-> claim_span(answer_text, claim_text, sentence_start),
                                 normalized |-> Some(normalize_claim(claim_text))],
                      sentence_start |-> sentence_start] >> \o rest

\* the loop over the sentences k.. with current_pos
RECURSIVE extract_loop(_, _, _, _)
extract_loop(answer_text, sentences, k, current_pos) ==
    IF k > Len(sentences) THEN <<>>
    ELSE LET sentence == sentences[k]
             found == Find(answer_text, sentence, current_pos)
             sentence_start == IF found = -1 THEN current_pos ELSE found
         IN  sentence_claims(answer_text, split_sentence(sentence), sentence_start, 1)
             \o extract_loop(answer_text, sentences, k + 1, sentence_start + Len(sentence))

\* extract_claims(answer) where the sentence segmenter reports sentences
extract_claims_in(answer_text, sentences) ==
    LET located == extract_loop(answer_text, sentences, 1, 0)
    IN  [claims |-> [k \in 1..Len(located) |-> located[k].claim],
         starts |-> [k \in 1..Len(located) |-> located[k].sentence_start]]

\* the places where a sentence may end: behind s[c] when a token that is no
\* whitespace begins at s[c + 1]
SentenceEnds(s) ==
    { c \in 1..(Len(s) - 1) :
        ~IsSpace(s[c + 1]) /\ ~(IsWordChar(s[c]) /\ IsWordChar(s[c + 1])) }

\* the text cut behind the places ends[1] < ends[2] < ...
Pieces(s, ends) ==
    [k \in 1..(Len(ends) + 1) |->
        SubSeq(s, IF k = 1 THEN 1 ELSE ends[k - 1] + 1,
                  IF k = Len(ends) + 1 THEN Len(s) ELSE ends[k])]

\* what the sentence segmenter may report for an answer: up to MaxSentences
\* successive sentences that make up the answer, each with or without its
\* trailing whitespace; nothing for the empty answer
Sentences(answer_text) ==
    IF answer_text = <<>> THEN { <<>> }
    ELSE LET cuts == UNION { { e \in [1..n -> SentenceEnds(answer_text)] :
                                 \A a, b \in 1..n : a < b => e[a] < e[b] } :
                             n \in 0..(MaxSentences - 1) }
         IN  UNION { { Pieces(answer_text, e),
                       [k \in 1..(Len(e) + 1) |-> RStrip(Pieces(answer_text, e)[k])] } :
                     e \in cuts }

\* f_arg holds an answer handed to extract_claims and the sentences the
\* segmenter reports for it
ExtractInputs ==
    \E a \in TokenStrings({ <<"x">>, <<",", " ">>, <<" ", "a", "n", "d", " ", " ">> },
                          MaxTokens) :
        \E ss \in Sentences(a) : f_arg = [answer |-> a, sentences |-> ss]

-----------------------------------------------------------------------------
(* CitationMatcher *)

\* seeded fault: the score is not capped at 1.0
calculate_spam_score_uncapped(n_citations, n_claims) ==
    IF n_claims = 0 THEN (IF n_citations > 0 THEN Scale ELSE 0)
    ELSE IF n_citations > 3 * n_claims
         THEN (Scale * (n_citations - 3 * n_claims)) \div (3 * n_claims)
         ELSE 0

\* CitationMatcher._calculate_spam_score, which reads only len(citations) and
\* len(claims): (c / n - 3) / 3 = (c - 3 n) / (3 n)
calculate_spam_score(n_citations, n_claims) ==
    IF n_claims = 0 THEN (IF n_citations > 0 THEN Scale ELSE 0)
    ELSE IF n_citations > 3 * n_claims
         THEN Min(Scale, (Scale * (n_citations - 3 * n_claims)) \div (3 * n_claims))
         ELSE 0

\* the lengths of the lists handed to _calculate_spam_score
SpamInputs ==
    { [citations |-> c, claims |-> n] : c \in 0..MaxCitations, n \in 0..MaxClaims }

\* the end of the longest run of characters with P that starts at s[i]: i - 1
\* when s[i] has not P
RECURSIVE RunEnd(_, _, _)
RunEnd(P(_), s, i) ==
    IF i <= Len(s) /\ P(s[i]) THEN RunEnd(P, s, i + 1) ELSE i - 1

\* [A-Za-z]
IsLetter(c) == c \in Range(Uppers) \cup Range(Lowers)

\* the match of one of citation_patterns that starts at s[i], None without one:
\* [digits], (digits), [letters], (letters), [letters digits]
citation_at(s, i) ==
    LET last_letter == RunEnd(IsLetter, s, i + 1)
        last_digit == RunEnd(IsDigit, s, last_letter + 1)
        letters == last_letter - i
        digits == last_digit - last_letter
        closed == /\ last_digit < Len(s)
                  /\ s[last_digit + 1] = (IF s[i] = "[" THEN "]" ELSE ")")
    IN  IF /\ s[i] \in {"[", "("}
           /\ closed
           /\ letters + digits > 0
           /\ (letters > 0 /\ digits > 0) => s[i] = "["
        THEN Some(<<StrOf(SubSeq(s, i + 1, last_digit)), i - 1, last_digit + 1>>)
        ELSE None

\* CitationMatcher.extract_citations(text): the matches of the five patterns
\* as (citation_id, start, end), duplicates removed, sorted by start; two
\* matches never start at the same place
extract_citations(text) ==
    LET starts == { i \in DOMAIN text : citation_at(text, i) # None }
        nth(k) == CHOOSE i \in starts : Cardinality({ j \in starts : j < i }) = k - 1
    IN  [k \in 1..Cardinality(starts) |-> citation_at(text, nth(k))[1]]

\* the distance of a citation (citation_id, start, end) from a claim
citation_distance(cit, claim) ==
    IF cit[2] <= claim.span[2] /\ cit[3] >= claim.span[1] THEN 0
    ELSE LET a == cit[2] - claim.span[2]
             b == cit[3] - claim.span[1]
         IN  Min(IF a < 0 THEN -a ELSE a, IF b < 0 THEN -b ELSE b)

\* seeded fault: on equal distance the later claim is kept
closest_claim_last(cl, cit) ==
    IF cl = <<>> THEN 0
    ELSE CHOOSE k \in DOMAIN cl : \A j \in DOMAIN cl :
            \/ citation_distance(cit, cl[k]) < citation_distance(cit, cl[j])
            \/ (citation_distance(cit, cl[k]) = citation_distance(cit, cl[j])
                  /\ k >= j)

\* the inner loop of match_citations_to_claims: the index of closest_claim, 0
\* for None; a later claim replaces it only with a smaller distance
closest_claim(cl, cit) ==
    IF cl = <<>> THEN 0
    ELSE CHOOSE k \in DOMAIN cl : \A j \in DOMAIN cl :
            \/ citation_distance(cit, cl[k]) < citation_distance(cit, cl[j])
            \/ (citation_distance(cit, cl[k]) = citation_distance(cit, cl[j])
                  /\ k <= j)

\* the loop of match_citations_to_claims over the citations i..
RECURSIVE match_loop(_, _, _, _, _)
match_loop(cl, citations, passage_map, i, claim_citations) ==
    IF i > Len(citations) THEN claim_citations
    ELSE LET cit == citations[i]
             k == closest_claim(cl, cit)
         IN  match_loop(cl, citations, passage_map, i + 1,
                IF k # 0 /\ citation_distance(cit, cl[k]) < 200
                         /\ cit[1] \in DOMAIN passage_map
                THEN [claim_citations EXCEPT ![cl[k]] = Append(@, cit[1])]
                ELSE claim_citations)

\* CitationMatcher.match_citations_to_claims: a dict keyed by the claims
match_citations_to_claims(cl, citations, passage_map) ==
    match_loop(cl, citations, passage_map, 1, [c \in Range(cl) |-> <<>>])

\* the passage_map analyze_citations builds: by default the passage ids are the
\* citation ids; with a non-empty passage_id_to_citation the passages it names
\* stand under their citation ids and the others are left out; a later passage
\* replaces an earlier one under the same key
passage_map_of(ps, passage_id_to_citation) ==
    LET renamed == passage_id_to_citation # None /\ DOMAIN passage_id_to_citation[1] # {}
        listed == IF renamed
                  THEN {k \in DOMAIN ps : ps[k].id \in DOMAIN passage_id_to_citation[1]}
                  ELSE DOMAIN ps
        key(k) == IF renamed THEN passage_id_to_citation[1][ps[k].id] ELSE ps[k].id
    IN  [c \in {key(k) : k \in listed} |->
            ps[CHOOSE k \in listed :
                  key(k) = c /\ \A j \in listed : key(j) = c => j <= k]]

\* seeded fault: the quality of an unsupported claim is computed like that of
\* a supported one
evaluate_citation_quality_unguarded(claim_analysis, associated_citations, passage_map) ==
    LET supporting_passage_ids ==
            {sn.passage_id : sn \in Range(claim_analysis.supporting_snippets)}
        matches(c) == c \in DOMAIN passage_map /\ passage_map[c].id \in supporting_passage_ids
        matching == SelectSeq(associated_citations, matches)
    IN  [has_citations |-> associated_citations # <<>>,
         citation_count |-> Len(associated_citations),
         matching_citations |-> matching,
         mismatched_citations |-> <<>>,
         missing_citations |-> <<>>,
         citation_quality_score |->
            IF associated_citations # <<>>
            THEN (Len(matching) * Scale) \div Len(associated_citations)
            ELSE IF supporting_passage_ids # {} THEN 0 ELSE Scale]

\* CitationMatcher.evaluate_citation_quality
evaluate_citation_quality(claim_analysis, associated_citations, passage_map) ==
    LET supporting_passage_ids ==
            {sn.passage_id : sn \in Range(claim_analysis.supporting_snippets)}
        matches(c) == c \in DOMAIN passage_map /\ passage_map[c].id \in supporting_passage_ids
        mismatches(c) == c \in DOMAIN passage_map /\ passage_map[c].id \notin supporting_passage_ids
        cited_passage_ids ==
            {IF c \in DOMAIN passage_map THEN passage_map[c].id ELSE "" :
                c \in Range(associated_citations)}
        uncited(id) == id \notin cited_passage_ids
        matching == SelectSeq(associated_citations, matches)
        supporting == [k \in DOMAIN claim_analysis.supporting_snippets |->
                          claim_analysis.supporting_snippets[k].passage_id]
    IN  IF ~claim_analysis.supported
        THEN [has_citations |-> associated_citations # <<>>,
              citation_count |-> Len(associated_citations),
              matching_citations |-> <<>>,
              mismatched_citations |-> <<>>,
              missing_citations |-> <<>>,
              citation_quality_score |-> 0]
        ELSE [has_citations |-> associated_citations # <<>>,
              citation_count |-> Len(associated_citations),
              matching_citations |-> matching,
              mismatched_citations |-> SelectSeq(associated_citations, mismatches),
              missing_citations |-> SelectSeq(supporting, uncited),
              citation_quality_score |->
                 IF associated_citations # <<>>
                 THEN (Len(matching) * Scale) \div Len(associated_citations)
                 ELSE IF supporting_passage_ids # {} THEN 0 ELSE Scale]

\* CitationMatcher.analyze_citations(answer, claims, claim_analyses, passages,
\* passage_id_to_citation)
analyze_citations(answer_text, cl, analyses, ps, passage_id_to_citation) ==
    LET citations == extract_citations(answer_text)
        passage_map == passage_map_of(ps, passage_id_to_citation)
        claim_to_citations == match_citations_to_claims(cl, citations, passage_map)
        n == IF Len(cl) <= Len(analyses) THEN Len(cl) ELSE Len(analyses)
        citation_analyses ==
            [k \in 1..n |->
                [claim |-> cl[k].text,
                 quality |-> evaluate_citation_quality(analyses[k],
                                claim_to_citations[cl[k]], passage_map)]]
        scores == [k \in 1..n |-> citation_analyses[k].quality.citation_quality_score]
    IN  [total_citations |-> Len(citations),
         citation_analyses |-> citation_analyses,
         overall_citation_quality |-> IF n > 0 THEN SumSeq(scores) \div n ELSE 0,
         citation_spam_score |-> calculate_spam_score(Len(citations), Len(cl))]

\* the claims a caller may hand over
ClaimLists == UNION { [1..n -> Claims] : n \in 0..MaxClaims }

\* the passages of the context the citations refer to
CitedPassages ==
    << [id |-> "p1", text |-> <<"A">>], [id |-> "p2", text |-> <<"b", " ", "c">> ] >>

\* the citation markers written into the answers: two passage ids, and a number
\* that is the id of no passage
Markers == { <<"[", "p", "1", "]">>, <<"[", "p", "2", "]">>, <<"(", "9", ")">> }

\* n blanks
Pad(n) == [i \in 1..n |-> " "]

\* the answers with citation markers: "A", markers right behind it, and markers
\* that begin 204 or 205 characters into the text, that is 199 or 200
\* characters behind the end of the claim "A b" at [2, 5]
CitationTexts ==
    LET text(near, far, at) ==
            <<"A">> \o Concat(near)
                \o (IF far = <<>> THEN <<>>
                    ELSE Pad(at - 1 - Len(Concat(near))) \o Concat(far))
        lists(n) == [1..n -> Markers]
    IN  UNION { UNION { { text(near, far, at) :
                            near \in lists(n - f), far \in lists(f),
                            at \in IF f = 0 THEN {204} ELSE {204, 205} } :
                        f \in 0..n } :
                n \in 0..MaxOccurrences }

\* what extract_citations returns for them
CitationLists == { extract_citations(t) : t \in CitationTexts }

\* the analyses a scorer may have returned for the claims cl: unsupported, or
\* supported by the first cited passage, by both, or by no snippet
AnalysisLists(cl) ==
    LET snippet(k) == [passage_id |-> CitedPassages[k].id, text |-> CitedPassages[k].text,
                       score |-> 9 * (Scale \div 10)]
        verdicts == { [supported |-> FALSE, snippets |-> <<>>],
                      [supported |-> TRUE, snippets |-> <<snippet(1)>>],
                      [supported |-> TRUE, snippets |-> <<snippet(1), snippet(2)>>],
                      [supported |-> TRUE, snippets |-> <<>>] }
    IN  { [k \in DOMAIN cl |->
              ClaimAnalysis(cl[k], v[k].supported,
                            IF v[k].supported THEN 9 * (Scale \div 10) ELSE 0,
                            v[k].snippets, None)] : v \in [DOMAIN cl -> verdicts] }

\* the claim lists analyze_citations is called with: none, one claim, two
\* different claims in both orders, two equal claims
CitedClaimLists ==
    { <<>>, <<ClaimA>>, <<ClaimB>>, <<ClaimA, ClaimB>>, <<ClaimB, ClaimA>>,
      <<ClaimA, ClaimA>>, <<ClaimB, ClaimB>> }

\* passage_id_to_citation: left out, empty, or the first passage cited as "9"
CitationIds == { None, Some(<<>>), Some([id \in {"p1"} |-> "9"]) }

\* f_arg holds the arguments of analyze_citations
CitationInputs ==
    \E cl \in CitedClaimLists, t \in CitationTexts, ids \in CitationIds :
        \E an \in AnalysisLists(cl) :
            f_arg = [answer |-> t, claims |-> cl, analyses |-> an,
                     passages |-> CitedPassages, passage_id_to_citation |-> ids]

-----------------------------------------------------------------------------
(* EvidenceCoverageEvaluator *)

\* ClaimExtractor.extract_claims(answer), ans.sentences being what the
\* segmenter reports for ans.text
extract_claims(ans) == extract_claims_in(ans.text, ans.sentences).claims

\* the sentences of the answers evaluated: one claim, a longer claim, a
\* sentence of two equal sub-claims, a claim with a citation marker
AnswerSentences ==
    { <<"A">>, <<"A", " ", "b">>, <<"A", ",", " ", "A">>,
      <<"A", " ", "[", "p", "1", "]">> }

\* the answers evaluated, with the sentences the segmenter reports for them:
\* sentences joined by a blank that yield up to MaxClaims claims
Answers ==
    { ans \in { [text |-> Join(<<" ">>, ss), sentences |-> ss] :
                    ss \in UNION { [1..n -> AnswerSentences] : n \in 0..MaxClaims } } :
        Len(extract_claims(ans)) <= MaxClaims }

\* the contexts evaluated: no passage, one passage without a word, and passages
\* that share or repeat words
ContextTexts ==
    { <<>>,
      << <<>> >>,
      << <<"A">>, <<"b", " ", "c">> >>,
      << <<"A">>, <<"A">>, <<"b", " ", "c">> >>,
      << <<"b", " ", "c">>, <<>>, <<"A">> >> }

Contexts ==
    { ps \in PassageLists : [k \in DOMAIN ps |-> ps[k].text] \in ContextTexts }

\* a / b on floats
FloatDiv(a, b) == (a * Scale) \div b

\* the classifier is a function of the text pair: m extended to the pairs of P
ExtendEntail(m, P) ==
    { [k \in DOMAIN m \cup P |-> IF k \in DOMAIN m THEN m[k] ELSE g[k]] :
        g \in [P \ DOMAIN m -> ProbLevels] }

\* s[:n] of a str or list
Prefix(s, n) == SubSeq(s, 1, Min(n, Len(s)))

\* seeded fault: every analysis is counted, whatever its verdict
SelectAnalyses_all(analyses, keep) == analyses

RECURSIVE SelectAnalyses(_, _)
SelectAnalyses(analyses, keep) ==
    IF analyses = <<>> THEN <<>>
    ELSE IF Head(analyses).supported = keep
         THEN <<Head(analyses)>> \o SelectAnalyses(Tail(analyses), keep)
         ELSE SelectAnalyses(Tail(analyses), keep)

\* models.UnsupportedClaim of every analysis that is not supported, in order
unsupported_of(analyses) ==
    LET u == SelectAnalyses(analyses, FALSE)
    IN  [k \in DOMAIN u |-> [claim |-> u[k].claim.text, span |-> u[k].claim.span,
                             missing_info |-> u[k].missing_info]]

CommonWords == { <<"t", "h", "e">>, <<"a">>, <<"a", "n">>, <<"i", "s">>,
                 <<"a", "r", "e">>, <<"w", "a", "s">>, <<"w", "e", "r", "e">>,
                 <<"b", "e">>, <<"b", "e", "e", "n">>, <<"b", "e", "i", "n", "g">> }

\* the words of the claim that are no common word and longer than 3 characters
key_words(claim_text) ==
    SelectSeq(Split(Lower(claim_text)), LAMBDA w : w \notin CommonWords /\ Len(w) > 3)

\* seeded fault: every key word of a claim is a topic
topics_of_every_word(unsupported) ==
    UNION { Range(key_words(unsupported[k].claim)) : k \in DOMAIN unsupported }

\* the set topics of _generate_feedback
topics_of(unsupported) ==
    { key_words(unsupported[k].claim)[1] :
        k \in {j \in DOMAIN unsupported : key_words(unsupported[j].claim) # <<>>} }

Message(msg, topic, claim, missing_info) ==
    [msg |-> msg, topic |-> topic, claim |-> claim, missing_info |-> missing_info]

\* the per-claim messages of _generate_feedback: one for each entry whose
\* missing_info is truthy (neither None nor the empty string)
RECURSIVE claim_messages(_)
claim_messages(unsupported) ==
    IF unsupported = <<>> THEN <<>>
    ELSE IF Head(unsupported).missing_info \notin {None, Some(Info("", None))}
         THEN <<Message("Unsupported claim: '%s...' - %s", None,
                        Some(Prefix(Head(unsupported).claim, 50)),
                        Head(unsupported).missing_info)>>
              \o claim_messages(Tail(unsupported))
         ELSE claim_messages(Tail(unsupported))

\* seeded fault: no message when nothing is unsupported
generate_feedback_silent(analyses, unsupported, topic_order) ==
    [k \in DOMAIN topic_order |->
        Message("Retrieve more information about: %s", Some(topic_order[k]), None, None)]
    \o claim_messages(Prefix(unsupported, 3))

\* EvidenceCoverageEvaluator._generate_feedback, topic_order the order in which
\* the set topics is iterated
generate_feedback(analyses, unsupported, topic_order) ==
    IF unsupported = <<>>
    THEN <<Message("All claims are supported by evidence. Great coverage!",
                   None, None, None)>>
    ELSE [k \in DOMAIN topic_order |->
            Message("Retrieve more information about: %s", Some(topic_order[k]),
                    None, None)]
         \o claim_messages(Prefix(unsupported, 3))

\* the orders in which a set can be iterated
Orders(S) ==
    { o \in [1..Cardinality(S) -> S] : \A a, b \in DOMAIN o : a # b => o[a] # o[b] }

\* a claim text of 52 characters, "Tower xxxx...": longer than the 50 quoted
LongClaimText == [k \in 1..52 |-> IF k <= 6 THEN <<"T", "o", "w", "e", "r", " ">>[k] ELSE "x"]

\* the UnsupportedClaim values _generate_feedback is called with: key words
\* "tower" (twice, once capitalised in a long claim), "fast", and none; with a
\* missing_info, with None and with the empty string
UnsupportedClaims ==
    { [claim |-> LongClaimText, span |-> <<0, 52>>,
       missing_info |-> Some(Info("Failed to parse LLM response", None))],
      [claim |-> <<"t", "o", "w", "e", "r">>, span |-> <<0, 5>>, missing_info |-> None],
      [claim |-> <<"a", " ", "f", "a", "s", "t", " ", "t", "o", "w", "e", "r">>,
       span |-> <<0, 12>>,
       missing_info |-> Some(Info("No evidence snippets provided", None))],
      [claim |-> <<"T", "h", "e", " ", "c", "a", "r">>, span |-> <<0, 7>>,
       missing_info |-> Some(Info("No evidence snippets provided", None))],
      [claim |-> <<"f", "a", "s", "t">>, span |-> <<0, 4>>,
       missing_info |-> Some(Info("", None))] }

FeedbackInputs == UNION { [1..n -> UnsupportedClaims] : n \in 0..MaxUnsupported }

\* seeded fault: the citation report is attached whether or not the answer
\* holds a citation marker
evaluation_result_always_cited(ans, ps, cl, analyses, topic_order) ==
    LET supported_count == Len(SelectAnalyses(analyses, TRUE))
        unsupported_claims == unsupported_of(analyses)
    IN  [coverage_score |-> IF cl # <<>> THEN (supported_count * Scale) \div Len(cl) ELSE 0,
         total_claims |-> Len(cl),
         supported_claims |-> supported_count,
         unsupported_claims |-> unsupported_claims,
         claim_analysis |-> analyses,
         feedback |-> generate_feedback(analyses, unsupported_claims, topic_order),
         metadata |-> [mode |-> "lightweight", threshold |-> e_threshold,
                       retrieval_method |-> method,
                       citation_analysis |->
                          Some(analyze_citations(ans.text, cl, analyses, ps, None))]]

\* steps 5 to 8 of evaluate and the EvaluationResult it returns
evaluation_result(ans, ps, cl, analyses, topic_order) ==
    LET supported_count == Len(SelectAnalyses(analyses, TRUE))
        coverage_score == IF cl # <<>> THEN FloatDiv(supported_count, Len(cl)) ELSE 0
        unsupported_claims == unsupported_of(analyses)
        feedback == generate_feedback(analyses, unsupported_claims, topic_order)
        citation_analysis == IF extract_citations(ans.text) # <<>>
                             THEN Some(analyze_citations(ans.text, cl, analyses, ps, None))
                             ELSE None
    IN  [coverage_score |-> coverage_score,
         total_claims |-> Len(cl),
         supported_claims |-> supported_count,
         unsupported_claims |-> unsupported_claims,
         claim_analysis |-> analyses,
         feedback |-> feedback,
         metadata |-> [mode |-> "lightweight", threshold |-> e_threshold,
                       retrieval_method |-> method,
                       citation_analysis |-> citation_analysis]]

NoResult ==
    [coverage_score |-> 0, total_claims |-> 0, supported_claims |-> 0,
     unsupported_claims |-> <<>>, claim_analysis |-> <<>>, feedback |-> <<>>,
     metadata |-> [mode |-> "", threshold |-> 0, retrieval_method |-> "",
                   citation_analysis |-> None]]

\* EvidenceCoverageEvaluator.__init__: the retriever and the NLI scorer are built
EvaluatorInit ==
    /\ RetrieverInit
    /\ e_threshold \in Thresholds
    /\ classifier = <<>>
    /\ pc = "idle"
    /\ answer = [text |-> <<>>, sentences |-> <<>>]
    /\ context = <<>>
    /\ claims = <<>>
    /\ evidence_dict = <<>>
    /\ claim_analyses = <<>>
    /\ e_i = 1
    /\ result = NoResult

\* no evaluator is modelled
EvaluatorIdle ==
    /\ e_threshold = 0
    /\ classifier = <<>>
    /\ pc = "idle"
    /\ answer = [text |-> <<>>, sentences |-> <<>>]
    /\ context = <<>>
    /\ claims = <<>>
    /\ evidence_dict = <<>>
    /\ claim_analyses = <<>>
    /\ e_i = 1
    /\ result = NoResult

\* evaluate, step 1: the call and extract_claims
EvaluateExtract ==
    /\ pc = "idle"
    /\ \E ans \in Answers, ps \in Contexts :
         /\ answer' = ans
         /\ context' = ps
         /\ claims' = extract_claims(ans)
    /\ pc' = "index"
    /\ UNCHANGED <<rvars, e_threshold, classifier, evidence_dict, claim_analyses, e_i, result>>

\* evaluate, step 2: index_passages(context.passages)
EvaluateIndex ==
    /\ pc = "index"
    /\ index_passages(context)
    /\ pc' = IF claims = <<>> THEN "finish" ELSE "retrieve"
    /\ e_i' = 1
    /\ UNCHANGED <<ret, e_threshold, classifier, answer, context, claims, evidence_dict,
                   claim_analyses, result>>

\* evaluate, step 3: one pass of the loop, retrieve(claim) for the i-th claim;
\* an exception of retrieve ends the call
EvaluateRetrieve ==
    /\ pc = "retrieve"
    /\ retrieve(claims[e_i], None)
    /\ IF ret'.exc # "none"
       THEN pc' = "raised" /\ UNCHANGED <<evidence_dict, e_i>>
       ELSE /\ evidence_dict' = [c \in DOMAIN evidence_dict \cup {claims[e_i]} |->
                                    IF c = claims[e_i] THEN ret'.val ELSE evidence_dict[c]]
            /\ e_i' = IF e_i = Len(claims) THEN 1 ELSE e_i + 1
            /\ pc' = IF e_i = Len(claims) THEN "score" ELSE "retrieve"
    /\ UNCHANGED <<e_threshold, classifier, answer, context, claims, claim_analyses, result>>

\* evaluate, step 4: one pass of the loop, score_claim for the i-th claim
EvaluateScore ==
    /\ pc = "score"
    /\ LET claim == claims[e_i]
           evidence == evidence_dict[claim]
       IN  \E entail \in ExtendEntail(classifier, entail_pairs(claim, evidence)) :
             LET r == nli_score_claim(claim, evidence, e_threshold, entail)
             IN  /\ classifier' = entail
                 /\ claim_analyses' = Append(claim_analyses, r.out.val)
                 /\ evidence_dict' = [evidence_dict EXCEPT ![claim] = r.evidence]
    /\ e_i' = IF e_i = Len(claims) THEN 1 ELSE e_i + 1
    /\ pc' = IF e_i = Len(claims) THEN "finish" ELSE "score"
    /\ UNCHANGED <<rvars, e_threshold, answer, context, claims, result>>

\* evaluate, steps 5 to 8 and the return
EvaluateFinish ==
    /\ pc = "finish"
    /\ \E topic_order \in Orders(topics_of(unsupported_of(claim_analyses))) :
         result' = evaluation_result(answer, context, claims, claim_analyses, topic_order)
    /\ pc' = "done"
    /\ UNCHANGED <<rvars, e_threshold, classifier, answer, context, claims, evidence_dict,
                   claim_analyses, e_i>>

Next ==
    \/ EvaluateExtract /\ UNCHANGED <<svars, fvars, pvars>>
    \/ EvaluateIndex /\ UNCHANGED <<svars, fvars, pvars>>
    \/ EvaluateRetrieve /\ UNCHANGED <<svars, fvars, pvars>>
    \/ EvaluateScore /\ UNCHANGED <<svars, fvars, pvars>>
    \/ EvaluateFinish /\ UNCHANGED <<svars, fvars, pvars>>

Init == EvaluatorInit /\ ScorerIdle /\ FunctionIdle /\ ParallelIdle

\* one evaluate call on a freshly constructed evaluator
Spec == Init /\ [][Next]_vars

-----------------------------------------------------------------------------
(* Properties of evaluate, checked under Spec *)

\* C1: the EvaluationResult returned by evaluate has total_claims =
\* len(claim_analysis), supported_claims = the number of supported analyses,
\* len(unsupported_claims) = total_claims - supported_claims, supported_claims <=
\* total_claims, coverage_score = supported_claims / total_claims (0.0 without
\* claims), and 0 <= coverage_score <= 1.
C1_ResultCounts ==
    pc = "done" =>
        /\ result.total_claims = Len(result.claim_analysis)
        /\ result.supported_claims =
             Cardinality({k \in DOMAIN result.claim_analysis :
                             result.claim_analysis[k].supported})
        /\ Len(result.unsupported_claims) = result.total_claims - result.supported_claims
        /\ result.supported_claims <= result.total_claims
        /\ result.coverage_score =
             IF result.total_claims = 0 THEN 0
             ELSE (result.supported_claims * Scale) \div result.total_claims
        /\ 0 <= result.coverage_score /\ result.coverage_score <= Scale

\* a result with one supported and one unsupported claim
C1_Witness ==
    /\ pc = "done"
    /\ result.total_claims = 2
    /\ result.supported_claims = 1
    /\ Len(result.unsupported_claims) = 1

\* C2: evaluate on a context of zero passages and an answer with at least one
\* claim raises nothing and analyses every claim as unsupported, with
\* support_score 0.0 and missing_info "No evidence snippets provided";
\* supported_claims = 0 and coverage_score = 0.0.
C2_EmptyContext ==
    (context = <<>> /\ claims # <<>>) =>
        /\ pc # "raised"
        /\ pc = "done" =>
             /\ Len(result.claim_analysis) = Len(claims)
             /\ \A k \in DOMAIN result.claim_analysis :
                  /\ result.claim_analysis[k].claim = claims[k]
                  /\ ~result.claim_analysis[k].supported
                  /\ result.claim_analysis[k].support_score = 0
                  /\ result.claim_analysis[k].missing_info # None
                  /\ result.claim_analysis[k].missing_info[1].msg =
                       "No evidence snippets provided"
             /\ result.supported_claims = 0
             /\ result.coverage_score = 0

\* two claims evaluated against an empty context
C2_Witness ==
    /\ pc = "done"
    /\ context = <<>>
    /\ Len(claims) = 2
    /\ Len(result.claim_analysis) = 2

\* C3: when the claim extractor returns no claims, the result has total_claims
\* = 0, supported_claims = 0, coverage_score = 0.0, empty claim_analysis and
\* unsupported_claims, and a feedback of exactly one, positive, message.
C3_EmptyAnswer ==
    (pc = "done" /\ claims = <<>>) =>
        /\ result.total_claims = 0
        /\ result.supported_claims = 0
        /\ result.coverage_score = 0
        /\ result.claim_analysis = <<>>
        /\ result.unsupported_claims = <<>>
        /\ Len(result.feedback) = 1
        /\ result.feedback[1].msg =
             "All claims are supported by evidence. Great coverage!"

\* an answer without claims evaluated against indexed passages
C3_Witness ==
    /\ pc = "done"
    /\ claims = <<>>
    /\ passages # <<>>
    /\ result.feedback # <<>>

-----------------------------------------------------------------------------
(* The retriever alone: any sequence of index_passages and retrieve calls *)

RetrieverNext ==
    \/ IndexPassages /\ UNCHANGED <<svars, evars, fvars, pvars>>
    \/ Retrieve /\ UNCHANGED <<svars, evars, fvars, pvars>>

RetrieverSpecInit == RetrieverInit /\ ScorerIdle /\ EvaluatorIdle /\ FunctionIdle /\ ParallelIdle

RetrieverSpec == RetrieverSpecInit /\ [][RetrieverNext]_vars

\* C6: every list retrieve returns is in non-increasing score order, holds only
\* scores > 0, and each snippet carries the passage_id and text of a distinct
\* indexed passage; the list is empty when no passages are indexed.
C6_RetrieveOrdered ==
    (ret.call # None /\ ret.exc = "none") =>
        /\ \A a, b \in DOMAIN ret.val : a < b => ret.val[a].score >= ret.val[b].score
        /\ \A a \in DOMAIN ret.val : ret.val[a].score > 0
        /\ \E f \in [DOMAIN ret.val -> DOMAIN passages] :
             /\ \A a, b \in DOMAIN ret.val : a # b => f[a] # f[b]
             /\ \A a \in DOMAIN ret.val :
                  /\ ret.val[a].passage_id = passages[f[a]].id
                  /\ ret.val[a].text = passages[f[a]].text
        /\ passages = <<>> => ret.val = <<>>

\* two snippets of different score returned from three indexed passages
C6_Witness ==
    /\ ret.call # None
    /\ ret.exc = "none"
    /\ Len(passages) = 3
    /\ Len(ret.val) = 2
    /\ ret.val[1].score > ret.val[2].score

\* C14: index_passages replaces the prior index: after any sequence of
\* index_passages and retrieve calls, every snippet of a returned list refers to
\* a passage of the list indexed last, and the outcome of retrieve is the one of
\* a fresh retriever that indexed only that list.
C14_IndexReplaced ==
    ret.call # None =>
        LET claim == ret.call[1].claim
            k == effective_k(ret.call[1].top_k)
            texts == [j \in DOMAIN passages |-> passages[j].text]
            corpus == [j \in DOMAIN passages |-> Split(Lower(passages[j].text))]
            scores == IF method = "bm25"
                      THEN get_scores(corpus, tokenize(query_text(claim)))
                      ELSE [j \in DOMAIN passages |->
                              Cosine(encoder[passages[j].text], encoder[query_text(claim)])]
            fresh == IF passages = <<>> THEN Returned(ret.call[1], <<>>)
                     ELSE IF method = "bm25" /\ BM25Fails(corpus)
                     THEN Raised(ret.call[1], "AttributeError")
                     ELSE Returned(ret.call[1],
                                   snippets_of(top_indices_of(scores, k), scores,
                                               passages, texts))
        IN  /\ ret.exc = fresh.exc
            /\ ret.val = fresh.val
            /\ \A a \in DOMAIN ret.val : \E j \in DOMAIN passages :
                  /\ ret.val[a].passage_id = passages[j].id
                  /\ ret.val[a].text = passages[j].text

\* snippets returned from a list of one passage that replaced a longer list
C14_Witness ==
    /\ ret.call # None
    /\ Len(passages) = 1
    /\ Len(ret.val) = 1
    /\ bm25.tag = "BM25Okapi" => Len(bm25.corpus) = 1
    /\ method = "embedding" => Len(passage_embeddings) = 1

\* C18: score ties are broken by passage index, the first-indexed passage
\* winning; stated for passages of equal text, which have equal scores: if the
\* later of two such passages is returned, the earlier one is returned too, and
\* before it.
C18_TiesFirstIndexed ==
    (ret.call # None /\ ret.exc = "none") =>
        \A j, l \in DOMAIN passages :
            (j < l /\ passages[j].text = passages[l].text) =>
                \A b \in DOMAIN ret.val :
                    ret.val[b].passage_id = passages[l].id =>
                        \E a \in DOMAIN ret.val :
                            a < b /\ ret.val[a].passage_id = passages[j].id

\* C7: a top_k passed to retrieve overrides the constructor's: for every integer
\* top_k >= 0 passed, the returned list has at most top_k snippets, and at most
\* the constructor's top_k when it is omitted.
C7_TopKOverrides ==
    (ret.call # None /\ ret.exc = "none") =>
        Len(ret.val) <= (IF ret.call[1].top_k # None THEN ret.call[1].top_k[1] ELSE top_k)

\* C8: after a failed build of the BM25 index every retrieve call returns an
\* empty list and raises nothing.
C8_FailedBuildReturnsEmpty ==
    (bm25.tag = "None" /\ ret.call # None) =>
        /\ ret.exc = "none"
        /\ ret.val = <<>>

-----------------------------------------------------------------------------
(* One score_claim call on either scorer *)

ScorerNext ==
    \/ NLIScoreClaim /\ UNCHANGED <<rvars, evars, fvars, pvars>>
    \/ JudgeScoreClaim /\ UNCHANGED <<rvars, evars, fvars, pvars>>
    \/ LLMJudgeScoreClaim /\ UNCHANGED <<rvars, evars, fvars, pvars>>

ScorerSpecInit == ScorerInit /\ RetrieverIdle /\ EvaluatorIdle /\ FunctionIdle /\ ParallelIdle

ScorerSpec == ScorerSpecInit /\ [][ScorerNext]_vars

\* C4: in both strategies score_claim on an empty evidence list returns
\* supported = false, support_score = 0.0, no supporting snippet and missing_info
\* "No evidence snippets provided", for every claim and threshold, without a
\* call to the classifier or to the judge service.
C4_NoEvidence ==
    (s_out.state # "pending" /\ s_evidence = <<>>) =>
        /\ s_out.state = "returned"
        /\ s_out.val.claim = s_claim
        /\ ~s_out.val.supported
        /\ s_out.val.support_score = 0
        /\ s_out.val.supporting_snippets = <<>>
        /\ s_out.val.missing_info = Some(Info("No evidence snippets provided", None))
        /\ s_out.calls = 0

\* the judge has returned on an empty evidence list under the threshold 0.7
C4_Witness ==
    /\ strategy = "judge"
    /\ s_out.state = "returned"
    /\ s_evidence = <<>>
    /\ s_threshold > 0

\* C5: in the classifier strategy with non-empty evidence, support_score is the
\* maximum entailment probability over the snippets, supported holds iff
\* support_score >= threshold, and missing_info is set, reporting the best
\* score, iff supported is false.
C5_MaxProbability ==
    (strategy = "nli" /\ s_out.state # "pending" /\ s_evidence # <<>>) =>
        LET C5_Prob(k) == s_reply[<<query_text(s_claim), s_evidence[k].text>>] IN
        /\ s_out.state = "returned"
        /\ \E k \in DOMAIN s_evidence : s_out.val.support_score = C5_Prob(k)
        /\ \A k \in DOMAIN s_evidence : s_out.val.support_score >= C5_Prob(k)
        /\ s_out.val.supported <=> s_out.val.support_score >= s_threshold
        /\ s_out.val.missing_info # None <=> ~s_out.val.supported
        /\ ~s_out.val.supported =>
             s_out.val.missing_info[1].arg = Some(Format2f(s_out.val.support_score))

\* the best probability comes from the second snippet and equals the threshold
C5_Witness ==
    /\ strategy = "nli"
    /\ s_out.state = "returned"
    /\ Len(s_evidence) = 2
    /\ s_threshold > 0
    /\ s_reply[<<query_text(s_claim), s_evidence[1].text>>] < s_threshold
    /\ s_reply[<<query_text(s_claim), s_evidence[2].text>>] = s_threshold
    /\ s_out.val.supported

\* C21: in the classifier strategy supporting_snippets holds exactly the evidence
\* snippets whose own entailment probability is >= threshold, each with its
\* score overwritten to that probability, by non-increasing score; a snippet
\* below the threshold keeps its retrieval score and is left out; a lower
\* threshold keeps every snippet the call has listed.
C21_SupportingSnippets ==
    (strategy = "nli" /\ s_out.state = "returned" /\ s_evidence # <<>>) =>
        LET prob(k) == s_reply[<<query_text(s_claim), s_evidence[k].text>>]
            listed == s_out.val.supporting_snippets
            at(k) == {r \in DOMAIN listed : listed[r].passage_id = s_evidence[k].passage_id}
            given == [k \in DOMAIN s_evidence |->
                         [s_evidence[k] EXCEPT !.score = RetrievalScores[k]]]
            ids(t) == {sn.passage_id : sn \in
                         Range(nli_score_claim(s_claim, given, t, s_reply).out.val.supporting_snippets)}
        IN  /\ \A k \in DOMAIN s_evidence :
                 IF prob(k) >= s_threshold
                 THEN /\ Cardinality(at(k)) = 1
                      /\ \A r \in at(k) : listed[r] = s_evidence[k]
                      /\ s_evidence[k].score = prob(k)
                 ELSE /\ at(k) = {}
                      /\ s_evidence[k].score = RetrievalScores[k]
            /\ Len(listed) = Cardinality({k \in DOMAIN s_evidence : prob(k) >= s_threshold})
            /\ \A r \in 1..(Len(listed) - 1) : listed[r].score >= listed[r + 1].score
            /\ \A t \in Thresholds : t <= s_threshold => ids(s_threshold) \subseteq ids(t)

\* both snippets meet the threshold and the second, with the higher
\* probability, is listed first
C21_Witness ==
    /\ strategy = "nli"
    /\ s_out.state = "returned"
    /\ Len(s_evidence) = 2
    /\ s_threshold > 0
    /\ s_reply[<<query_text(s_claim), s_evidence[1].text>>] = s_threshold
    /\ s_reply[<<query_text(s_claim), s_evidence[2].text>>] > s_threshold
    /\ Len(s_out.val.supporting_snippets) = 2
    /\ s_out.val.supporting_snippets[1].passage_id = s_evidence[2].passage_id

\* C22: when the judge's response cannot be parsed as JSON, supported is true
\* iff the raw response text holds "true" or "supported", support_score is 0.5,
\* missing_info notes the parse failure, and supporting_snippets is the first
\* input snippet alone when supported and empty otherwise.
C22_ParseFailureVerdict ==
    (strategy = "judge" /\ s_out.state # "pending" /\ s_evidence # <<>>
        /\ ~s_reply.fails
        /\ (s_reply.response.fence = "other" \/ s_reply.response.body.py = "invalid")) =>
        /\ s_out.state = "returned"
        /\ s_out.val.supported <=>
               (s_reply.response.body.mentions \/ s_reply.response.tail)
        /\ s_out.val.support_score = Scale \div 2
        /\ s_out.val.missing_info = Some(Info("Failed to parse LLM response", None))
        /\ s_out.val.supporting_snippets =
               IF s_out.val.supported THEN <<s_evidence[1]>> ELSE <<>>
        /\ s_out.val.supported => s_evidence[1].score = Scale \div 2

\* C28: in every ClaimAnalysis score_claim returns, under either strategy,
\* supported = false implies that supporting_snippets is empty, and with
\* non-empty evidence supported = true implies that it is non-empty.
C28_VerdictAgreesWithSnippets ==
    s_out.state = "returned" =>
        /\ ~s_out.val.supported => s_out.val.supporting_snippets = <<>>
        /\ (s_out.val.supported /\ s_evidence # <<>>) =>
              s_out.val.supporting_snippets # <<>>

\* C9: when the call to the judge service fails, score_claim returns a
\* ClaimAnalysis with supported = false and a missing_info, and raises nothing.
C9_ServiceFailureDegrades ==
    (strategy = "judge" /\ s_out.state # "pending" /\ s_evidence # <<>>
        /\ s_reply.fails) =>
        /\ s_out.state = "returned"
        /\ ~s_out.val.supported
        /\ s_out.val.missing_info # None

\* C11: every ClaimAnalysis score_claim returns, under either strategy and for
\* every verdict of the judge, has support_score in [0, 1], and so has the score
\* of each of its supporting snippets.
C11_ScoresInUnitInterval ==
    s_out.state = "returned" =>
        /\ 0 <= s_out.val.support_score /\ s_out.val.support_score <= Scale
        /\ \A k \in DOMAIN s_out.val.supporting_snippets :
             /\ 0 <= s_out.val.supporting_snippets[k].score
             /\ s_out.val.supporting_snippets[k].score <= Scale

\* C10: whatever text the judge service returns, score_claim returns a
\* ClaimAnalysis and raises nothing.
C10_AnyResponseScored ==
    (strategy = "judge" /\ s_out.state # "pending" /\ s_evidence # <<>>
        /\ ~s_reply.fails) =>
        s_out.state = "returned"

-----------------------------------------------------------------------------
(* One call of a constructor or of a function without state *)

\* the call to be made and its argument
FunctionInit ==
    /\ \/ f_op \in {"EvidenceRetriever", "EvidenceCoverageEvaluator"}
          /\ f_arg \in MethodNames
       \/ f_op = "_normalize_claim" /\ f_arg \in NormalizeInputs
       \/ f_op = "_calculate_spam_score" /\ f_arg \in SpamInputs
       \/ f_op = "extract_claims" /\ ExtractInputs
       \/ f_op = "match_citations_to_claims"
          /\ f_arg \in { [claims |-> cl, citations |-> ci, passages |-> CitedPassages] :
                          cl \in ClaimLists, ci \in CitationLists }
       \/ f_op = "analyze_citations" /\ CitationInputs
       \/ f_op = "score_batch" /\ BatchInputs
       \/ f_op = "_generate_feedback" /\ f_arg \in FeedbackInputs
       \/ f_op = "_split_sentence" /\ f_arg \in SplitInputs
       \/ f_op = "_split_on_commas_and_enums" /\ f_arg \in CommaInputs
    /\ f_done = FALSE
    /\ f_out = <<>>

\* EvidenceRetriever(method = f_arg)
NewRetriever ==
    /\ f_op = "EvidenceRetriever" /\ ~f_done
    /\ f_out' = retriever_new(f_arg)
    /\ f_done' = TRUE
    /\ UNCHANGED <<f_op, f_arg>>

\* EvidenceCoverageEvaluator(retrieval_method = f_arg)
NewEvaluator ==
    /\ f_op = "EvidenceCoverageEvaluator" /\ ~f_done
    /\ f_out' = evaluator_new(f_arg)
    /\ f_done' = TRUE
    /\ UNCHANGED <<f_op, f_arg>>

\* _normalize_claim(f_arg), then _normalize_claim of what it returned: f_out
\* lists the successive results
NormalizeClaim ==
    /\ f_op = "_normalize_claim" /\ Len(f_out) < 2
    /\ f_out' = Append(f_out, normalize_claim(IF f_out = <<>> THEN f_arg ELSE f_out[1]))
    /\ f_done' = TRUE
    /\ UNCHANGED <<f_op, f_arg>>

\* _calculate_spam_score on lists of the lengths f_arg, and with one more
\* citation
CalculateSpamScore ==
    /\ f_op = "_calculate_spam_score" /\ ~f_done
    /\ f_out' = [score |-> calculate_spam_score(f_arg.citations, f_arg.claims),
                 next |-> calculate_spam_score(f_arg.citations + 1, f_arg.claims)]
    /\ f_done' = TRUE
    /\ UNCHANGED <<f_op, f_arg>>

\* _split_sentence(f_arg)
SplitSentence ==
    /\ f_op = "_split_sentence" /\ ~f_done
    /\ f_out' = split_sentence(f_arg)
    /\ f_done' = TRUE
    /\ UNCHANGED <<f_op, f_arg>>

\* _split_on_commas_and_enums(f_arg)
SplitOnCommasAndEnums ==
    /\ f_op = "_split_on_commas_and_enums" /\ ~f_done
    /\ f_out' = split_on_commas_and_enums(f_arg)
    /\ f_done' = TRUE
    /\ UNCHANGED <<f_op, f_arg>>

\* extract_claims(f_arg.answer), the segmenter reporting f_arg.sentences
ExtractClaims ==
    /\ f_op = "extract_claims" /\ ~f_done
    /\ f_out' = extract_claims_in(f_arg.answer, f_arg.sentences)
    /\ f_done' = TRUE
    /\ UNCHANGED <<f_op, f_arg>>

\* match_citations_to_claims(answer, f_arg.claims, f_arg.citations, passage_map)
\* with the default passage_map of f_arg.passages
MatchCitationsToClaims ==
    /\ f_op = "match_citations_to_claims" /\ ~f_done
    /\ f_out' = match_citations_to_claims(f_arg.claims, f_arg.citations,
                                           passage_map_of(f_arg.passages, None))
    /\ f_done' = TRUE
    /\ UNCHANGED <<f_op, f_arg>>

\* analyze_citations(f_arg.answer, f_arg.claims, f_arg.analyses, f_arg.passages,
\* f_arg.passage_id_to_citation)
AnalyzeCitations ==
    /\ f_op = "analyze_citations" /\ ~f_done
    /\ f_out' = analyze_citations(f_arg.answer, f_arg.claims, f_arg.analyses,
                                  f_arg.passages, f_arg.passage_id_to_citation)
    /\ f_done' = TRUE
    /\ UNCHANGED <<f_op, f_arg>>

\* NLIScorer.score_batch(f_arg.claims, f_arg.evidence_dict, f_arg.threshold)
ScoreBatch ==
    /\ f_op = "score_batch" /\ ~f_done
    /\ f_out' = score_batch(f_arg.claims, f_arg.evidence_dict, f_arg.threshold,
                            f_arg.entail)
    /\ f_done' = TRUE
    /\ UNCHANGED <<f_op, f_arg>>

\* _generate_feedback(analyses, f_arg); the set topics is iterated in any order
GenerateFeedback ==
    /\ f_op = "_generate_feedback" /\ ~f_done
    /\ \E topic_order \in Orders(topics_of(f_arg)) :
          f_out' = generate_feedback(<<>>, f_arg, topic_order)
    /\ f_done' = TRUE
    /\ UNCHANGED <<f_op, f_arg>>

FunctionNext ==
    \/ NewRetriever /\ UNCHANGED <<rvars, svars, evars, pvars>>
    \/ NewEvaluator /\ UNCHANGED <<rvars, svars, evars, pvars>>
    \/ NormalizeClaim /\ UNCHANGED <<rvars, svars, evars, pvars>>
    \/ CalculateSpamScore /\ UNCHANGED <<rvars, svars, evars, pvars>>
    \/ ExtractClaims /\ UNCHANGED <<rvars, svars, evars, pvars>>
    \/ MatchCitationsToClaims /\ UNCHANGED <<rvars, svars, evars, pvars>>
    \/ AnalyzeCitations /\ UNCHANGED <<rvars, svars, evars, pvars>>
    \/ GenerateFeedback /\ UNCHANGED <<rvars, svars, evars, pvars>>
    \/ ScoreBatch /\ UNCHANGED <<rvars, svars, evars, pvars>>
    \/ SplitSentence /\ UNCHANGED <<rvars, svars, evars, pvars>>
    \/ SplitOnCommasAndEnums /\ UNCHANGED <<rvars, svars, evars, pvars>>

FunctionSpecInit == FunctionInit /\ RetrieverIdle /\ ScorerIdle /\ EvaluatorIdle /\ ParallelIdle

FunctionSpec == FunctionSpecInit /\ [][FunctionNext]_vars

\* C12: constructing an EvidenceRetriever, or an EvidenceCoverageEvaluator, with
\* a method name other than "bm25" or "embedding" raises ValueError; no
\* retriever is created with another strategy than the one asked for.
C12_UnknownMethodRaises ==
    (f_done /\ f_op \in {"EvidenceRetriever", "EvidenceCoverageEvaluator"}) =>
        /\ f_arg \notin {"bm25", "embedding"} =>
             f_out.exc = "ValueError" /\ f_out.method = "none"
        /\ f_arg \in {"bm25", "embedding"} =>
             f_out.exc = "none" /\ f_out.method = f_arg

\* an evaluator asked for with the method name "hybrid"
C12_Witness ==
    /\ f_done
    /\ f_op = "EvidenceCoverageEvaluator"
    /\ f_arg = "hybrid"
    /\ f_out.exc = "ValueError"

\* C15: _normalize_claim is idempotent: normalizing a normalized claim returns
\* it unchanged.
C15_NormalizeIdempotent ==
    (f_op = "_normalize_claim" /\ Len(f_out) = 2) => f_out[2] = f_out[1]

\* C17: for n > 0 claims the spam score of c citations is 0.0 when c / n <= 3,
\* (c / n - 3) / 3 when 3 < c / n < 6 and 1.0 when c / n >= 6; it lies in
\* [0, 1] and does not decrease when a citation is added; without claims it is
\* 1.0 if c > 0 and 0.0 if c = 0.
C17_SpamScore ==
    (f_op = "_calculate_spam_score" /\ f_done) =>
        LET c == f_arg.citations
            n == f_arg.claims
        IN  /\ 0 <= f_out.score /\ f_out.score <= Scale
            /\ f_out.score <= f_out.next
            /\ (n > 0 /\ c <= 3 * n) => f_out.score = 0
            /\ (n > 0 /\ 3 * n < c /\ c < 6 * n) =>
                  f_out.score = (Scale * (c - 3 * n)) \div (3 * n)
            /\ (n > 0 /\ c >= 6 * n) => f_out.score = Scale
            /\ (n = 0 /\ c > 0) => f_out.score = Scale
            /\ (n = 0 /\ c = 0) => f_out.score = 0

\* nine citations for two claims: the ratio 4.5 gives the score 0.5
C17_Witness ==
    /\ f_op = "_calculate_spam_score" /\ f_done
    /\ f_arg.citations = 9 /\ f_arg.claims = 2
    /\ f_out.score = Scale \div 2
    /\ f_out.next > f_out.score

\* C16: every claim returned by extract_claims has a span with
\* 0 <= start < end <= len(answer), also when its text is not found in the
\* answer and the start of its sentence is used; no span starts before the
\* start of the sentence the claim comes from.
C16_SpansInAnswer ==
    (f_op = "extract_claims" /\ f_done) =>
        \A k \in 1..Len(f_out.claims) :
            LET span == f_out.claims[k].span
            IN  /\ 0 <= span[1]
                /\ span[1] < span[2]
                /\ span[2] <= Len(f_arg.answer)
                /\ f_out.starts[k] <= span[1]

\* a claim of the second sentence whose text is not a substring of the answer:
\* its span starts where the sentence starts
C16_Witness ==
    /\ f_op = "extract_claims" /\ f_done
    /\ \E k \in 1..Len(f_out.claims) :
          /\ Find(f_arg.answer, f_out.claims[k].text, 0) = -1
          /\ f_out.starts[k] > 0
          /\ f_out.claims[k].span[1] = f_out.starts[k]

\* C29: extract_claims returns the claims in the order of the text with
\* disjoint spans: for two claims at positions i < j of the returned sequence,
\* the span of the first ends at or before the start of the span of the second.
C29_SpansDisjointInOrder ==
    (f_op = "extract_claims" /\ f_done) =>
        \A i, j \in 1..Len(f_out.claims) :
            i < j => f_out.claims[i].span[2] <= f_out.claims[j].span[1]

\* C23: match_citations_to_claims attaches each citation occurrence to at most
\* one claim: to the claim of minimum distance (0 when the spans overlap, else
\* the gap between them), the earliest in the list on equal distance, if and
\* only if that distance is under 200 and the citation id names a passage;
\* otherwise, and with no claims, to none.
C23_NearestClaim ==
    (f_op = "match_citations_to_claims" /\ f_done) =>
        LET cl == f_arg.claims
            ci == f_arg.citations
            gap(i, k) == IF ci[i][2] > cl[k].span[2] THEN ci[i][2] - cl[k].span[2]
                         ELSE IF cl[k].span[1] > ci[i][3] THEN cl[k].span[1] - ci[i][3]
                         ELSE 0
            nearest(i) == {k \in DOMAIN cl : \A j \in DOMAIN cl : gap(i, k) <= gap(i, j)}
            target(i) == CHOOSE k \in nearest(i) : \A j \in nearest(i) : k <= j
            attached(i) == /\ cl # <<>>
                           /\ gap(i, target(i)) < 200
                           /\ \E k \in DOMAIN f_arg.passages : f_arg.passages[k].id = ci[i][1]
            indices == [i \in DOMAIN ci |-> i]
            ids(c) == LET mine(i) == attached(i) /\ cl[target(i)] = c
                          sel == SelectSeq(indices, mine)
                      IN  [r \in DOMAIN sel |-> ci[sel[r]][1]]
        IN  /\ DOMAIN f_out = Range(cl)
            /\ \A c \in Range(cl) : f_out[c] = ids(c)
            /\ SumOver([c \in Range(cl) |-> Len(f_out[c])], Range(cl)) =
                  Cardinality({i \in DOMAIN ci : attached(i)})

\* a citation that stands on both claims goes to the one listed first, and a
\* citation of a known passage 200 characters away goes to none
C23_Witness ==
    /\ f_op = "match_citations_to_claims" /\ f_done
    /\ f_arg.claims = <<ClaimB, ClaimA>>
    /\ f_arg.citations = << <<"p1", 1, 5>>, <<"p2", 205, 209>> >>
    /\ f_out[ClaimB] = <<"p1">>
    /\ f_out[ClaimA] = <<>>

\* C24: an unsupported claim has the citation quality 0.0; for a supported
\* claim matching and mismatched citations partition the attached ones by
\* whether the cited passage is among the supporting snippets' passages,
\* missing_citations lists the supporting passages no attached citation names,
\* the score is matching / attached, 0.0 without citations when supporting
\* passages exist and 1.0 when neither exists; every score and the overall
\* mean lie in [0, 1], and the mean is 0.0 without claims.
C24_CitationQuality ==
    (f_op = "analyze_citations" /\ f_done) =>
        LET renamed == f_arg.passage_id_to_citation \notin {None, Some(<<>>)}
            cited_as(id) == IF renamed THEN f_arg.passage_id_to_citation[1][id] ELSE id
            known == {f_arg.passages[k].id : k \in DOMAIN f_arg.passages}
            resolves == {id \in known : renamed => id \in DOMAIN f_arg.passage_id_to_citation[1]}
            passage_of(c) == CHOOSE id \in resolves : cited_as(id) = c
            lookup == [c \in {cited_as(id) : id \in resolves} |-> passage_of(c)]
            attached == match_citations_to_claims(f_arg.claims,
                                                  extract_citations(f_arg.answer), lookup)
        IN  /\ Len(f_out.citation_analyses) = Len(f_arg.claims)
            /\ 0 <= f_out.overall_citation_quality
            /\ f_out.overall_citation_quality <= Scale
            /\ f_arg.claims = <<>> => f_out.overall_citation_quality = 0
            /\ \A k \in DOMAIN f_out.citation_analyses :
                 LET q == f_out.citation_analyses[k].quality
                     an == f_arg.analyses[k]
                     mine == attached[f_arg.claims[k]]
                     supporting == {sn.passage_id : sn \in Range(an.supporting_snippets)}
                     good(c) == passage_of(c) \in supporting
                     bad(c) == passage_of(c) \notin supporting
                 IN  /\ 0 <= q.citation_quality_score /\ q.citation_quality_score <= Scale
                     /\ q.citation_count = Len(mine)
                     /\ ~an.supported => q.citation_quality_score = 0
                     /\ an.supported =>
                          /\ q.matching_citations = SelectSeq(mine, good)
                          /\ q.mismatched_citations = SelectSeq(mine, bad)
                          /\ Range(q.missing_citations) =
                                supporting \ {passage_of(c) : c \in Range(mine)}
                          /\ mine # <<>> =>
                                q.citation_quality_score =
                                   (Len(q.matching_citations) * Scale) \div Len(mine)
                          /\ (mine = <<>> /\ supporting # {}) => q.citation_quality_score = 0
                          /\ (mine = <<>> /\ supporting = {}) => q.citation_quality_score = Scale

\* a supported claim with one matching and one mismatched citation and the
\* score 0.5, beside an unsupported claim
C24_Witness ==
    /\ f_op = "analyze_citations" /\ f_done
    /\ Len(f_out.citation_analyses) = 2
    /\ \E k \in {1, 2} :
          /\ f_arg.analyses[k].supported
          /\ Len(f_out.citation_analyses[k].quality.matching_citations) = 1
          /\ Len(f_out.citation_analyses[k].quality.mismatched_citations) = 1
          /\ f_out.citation_analyses[k].quality.citation_quality_score = Scale \div 2
          /\ ~f_arg.analyses[3 - k].supported

\* C30: in the report of analyze_citations every citation occurrence is counted
\* for at most one claim: the sum of quality.citation_count over
\* citation_analyses is at most total_citations, also for a list that holds two
\* equal claims.
C30_CitationsCountedOnce ==
    (f_op = "analyze_citations" /\ f_done) =>
        SumSeq([k \in DOMAIN f_out.citation_analyses |->
                   f_out.citation_analyses[k].quality.citation_count])
            <= f_out.total_citations

\* C27: _generate_feedback returns exactly one positive message when no claim
\* is unsupported; otherwise it returns no positive message, exactly one
\* retrieval suggestion per distinct keyword (the first word of an unsupported
\* claim that is longer than 3 characters and no stop word), all suggestions
\* before the per-claim messages, and at most 3 per-claim messages, taken from
\* the first three unsupported claims in order, each quoting at most the first
\* 50 characters of its claim with that claim's missing_info.
C27_Feedback ==
    (f_op = "_generate_feedback" /\ f_done) =>
        LET positive == "All claims are supported by evidence. Great coverage!"
            first_keyword(text) ==
                LET ws == Split(Lower(text))
                    idx == {j \in DOMAIN ws : Len(ws[j]) > 3 /\ ws[j] \notin CommonWords}
                IN  IF idx = {} THEN None
                    ELSE Some(ws[CHOOSE j \in idx : \A l \in idx : j <= l])
            keywords == { first_keyword(f_arg[k].claim)[1] :
                            k \in {j \in DOMAIN f_arg : first_keyword(f_arg[j].claim) # None} }
            suggestions == {k \in DOMAIN f_out : f_out[k].topic # None}
            per_claim == {k \in DOMAIN f_out : f_out[k].claim # None}
            first_three == 1..Min(3, Len(f_arg))
        IN  /\ f_arg = <<>> =>
                 /\ Len(f_out) = 1
                 /\ f_out[1] = Message(positive, None, None, None)
            /\ f_arg # <<>> =>
                 /\ \A k \in DOMAIN f_out : f_out[k].msg # positive
                 /\ DOMAIN f_out = suggestions \cup per_claim
                 /\ {f_out[k].topic[1] : k \in suggestions} = keywords
                 /\ Cardinality(suggestions) = Cardinality(keywords)
                 /\ \A a \in suggestions, b \in per_claim : a < b
                 /\ Cardinality(per_claim) <= 3
                 /\ \E g \in [per_claim -> first_three] :
                       /\ \A a, b \in per_claim : a < b => g[a] < g[b]
                       /\ \A k \in per_claim :
                             /\ Len(f_out[k].claim[1]) <= 50
                             /\ f_out[k].claim[1] = Prefix(f_arg[g[k]].claim, 50)
                             /\ f_out[k].missing_info = f_arg[g[k]].missing_info

\* four unsupported claims that all carry a missing_info, two distinct keywords
\* among them, one claim longer than 50 characters: two suggestions, then three
\* per-claim messages, the first with a quotation of exactly 50 characters
C27_Witness ==
    /\ f_op = "_generate_feedback" /\ f_done
    /\ Len(f_arg) = 4
    /\ \A k \in DOMAIN f_arg : f_arg[k].missing_info \notin {None, Some(Info("", None))}
    /\ f_arg[1].claim = LongClaimText /\ f_arg[4].claim # LongClaimText
    /\ Len(f_out) = 5
    /\ f_out[1].topic # None /\ f_out[2].topic # None
    /\ f_out[3].claim # None /\ Len(f_out[3].claim[1]) = 50
    /\ f_out[5].claim # None

\* C25: within one evaluate call the steps run in this order: the claims are
\* extracted; index_passages is invoked once, before any retrieve; retrieve is
\* invoked once per extracted claim, in claim order; then score_claim is invoked
\* once per extracted claim, in claim order, with the evidence retrieved for
\* that claim, so that claim_analysis[i].claim is the i-th extracted claim; the
\* citation analysis runs after all scoring and its report is attached to
\* metadata exactly when the answer holds at least one citation marker.
C25_EvaluateOrder ==
    [][ LET index == <<passages, passage_texts, bm25, passage_embeddings>>
        IN  /\ pc = "idle" =>
                 /\ pc' = "index" /\ claims' = extract_claims(answer')
                 /\ ret' = NoCall /\ UNCHANGED index
            /\ pc = "index" =>
                 /\ passages' = context /\ ret' = NoCall
                 /\ pc' = IF claims = <<>> THEN "finish" ELSE "retrieve"
                 /\ e_i' = 1 /\ claim_analyses' = <<>>
            /\ pc = "retrieve" =>
                 /\ UNCHANGED index
                 /\ ret'.call = Some([claim |-> claims[e_i], top_k |-> None])
                 /\ claim_analyses' = <<>>
                 /\ \/ ret'.exc # "none" /\ pc' = "raised"
                    \/ /\ ret'.exc = "none"
                       /\ evidence_dict'[claims[e_i]] = ret'.val
                       /\ ret'.val = retrieved(claims[e_i])
                       /\ IF e_i < Len(claims)
                          THEN pc' = "retrieve" /\ e_i' = e_i + 1
                          ELSE pc' = "score" /\ e_i' = 1
            /\ pc = "score" =>
                 /\ UNCHANGED <<index, ret>>
                 /\ Len(claim_analyses) = e_i - 1
                 /\ claim_analyses' =
                      Append(claim_analyses,
                             nli_score_claim(claims[e_i], retrieved(claims[e_i]),
                                             e_threshold, classifier').out.val)
                 /\ claim_analyses'[e_i].claim = claims[e_i]
                 /\ IF e_i < Len(claims)
                    THEN pc' = "score" /\ e_i' = e_i + 1
                    ELSE pc' = "finish"
            /\ pc = "finish" =>
                 /\ UNCHANGED <<index, ret, claim_analyses>>
                 /\ pc' = "done"
                 /\ Len(claim_analyses) = Len(claims)
                 /\ result'.claim_analysis = claim_analyses
                 /\ \A k \in DOMAIN claims : result'.claim_analysis[k].claim = claims[k]
                 /\ result'.metadata.citation_analysis # None
                      <=> extract_citations(answer.text) # <<>>
            /\ pc \in {"done", "raised"} => UNCHANGED vars
            /\ UNCHANGED <<answer, context, claims>> \/ pc = "idle" ]_vars

\* a finished call on an answer with two different claims and a citation
\* marker: both claims were given evidence, the second retrieve was the last
\* call of the retriever, and the report is attached
C25_Witness ==
    /\ pc = "done"
    /\ Len(claims) = 2 /\ claims[1] # claims[2]
    /\ ret.call = Some([claim |-> claims[2], top_k |-> None])
    /\ \A k \in 1..2 : evidence_dict[claims[k]] # <<>>
    /\ result.claim_analysis[1].claim = claims[1]
    /\ result.claim_analysis[2].claim = claims[2]
    /\ result.claim_analysis[1] # result.claim_analysis[2]
    /\ extract_citations(answer.text) # <<>>
    /\ result.metadata.citation_analysis # None

\* C19: when a sentence contains a whitespace-delimited standalone conjunction
\* (and, but, or, nor, yet, so), _split_sentence returns at least two non-empty
\* sub-claims whose words, in order, are the sentence's words without the
\* conjunctions it was split on; a sentence with neither such a conjunction nor
\* a comma is not split.
C19_ConjunctionDropped ==
    (f_op = "_split_sentence" /\ f_done) =>
        LET words == Split(f_arg)
            parts == SplitConjunctions(Strip(f_arg), 1, 1)
            texts == [k \in 1..((Len(parts) + 1) \div 2) |-> parts[2 * k - 1]]
            standalone == \E k \in 2..(Len(words) - 1) : words[k] \in Range(Conjunctions)
        IN  /\ standalone =>
                 /\ Len(f_out) >= 2
                 /\ \A k \in 1..Len(f_out) : f_out[k] # <<>>
                 /\ Split(Join(<<" ">>, f_out)) = Split(Join(<<" ">>, texts))
            /\ (~standalone /\ "," \notin Range(f_arg)) => Len(f_out) <= 1

\* C20: _split_on_commas_and_enums returns a sentence that starts with an
\* enumeration marker whole; any other sentence is split at every comma followed
\* by whitespace and nowhere else, so that no fragment is empty, no fragment
\* holds a comma followed by whitespace, and there is at most one fragment more
\* than there are such commas.
C20_CommaSplit ==
    (f_op = "_split_on_commas_and_enums" /\ f_done) =>
        LET CommaSpace(s) == {i \in 1..(Len(s) - 1) : s[i] = "," /\ IsSpace(s[i + 1])}
        IN  /\ MatchesEnumeration(f_arg) => f_out = <<f_arg>>
            /\ ~MatchesEnumeration(f_arg) =>
                 /\ \A k \in 1..Len(f_out) :
                       f_out[k] # <<>> /\ CommaSpace(f_out[k]) = {}
                 /\ Len(f_out) <= 1 + Cardinality(CommaSpace(f_arg))

-----------------------------------------------------------------------------
(* A retriever whose caller scores the snippets it was handed *)

\* index_passages on the passages of a context
IndexContext == \E ps \in Contexts : index_passages(ps) /\ ret' = NoCall

\* NLIScorer.score_claim on the list the last retrieve call returned: the scores
\* of the snippets that meet the threshold are overwritten in place
ScoreHeld ==
    /\ ret.call # None
    /\ ret.held # <<>>
    /\ \E threshold \in Thresholds,
          entail \in [entail_pairs(ret.call[1].claim, ret.held) -> ProbLevels] :
         ret' = [ret EXCEPT !.held =
                    nli_score_claim(ret.call[1].claim, ret.held, threshold, entail).evidence]
    /\ UNCHANGED <<method, top_k, passages, passage_texts, bm25, passage_embeddings,
                   encoder>>

RescoreNext ==
    \/ IndexContext /\ UNCHANGED <<svars, evars, fvars, pvars>>
    \/ Retrieve /\ UNCHANGED <<svars, evars, fvars, pvars>>
    \/ ScoreHeld /\ UNCHANGED <<svars, evars, fvars, pvars>>

RescoreSpecInit == RetrieverInit /\ ScorerIdle /\ EvaluatorIdle /\ FunctionIdle /\ ParallelIdle

RescoreSpec == RescoreSpecInit /\ [][RescoreNext]_vars

\* C13: with the indexed passages unchanged, a retrieve call that repeats the
\* previous call (same claim, same top_k) returns the identical sequence of
\* (passage_id, text, score), also when a scorer has overwritten the scores of
\* the snippets returned before.
C13_RepeatedRetrieve ==
    [][(ret.call # None /\ ret'.call = ret.call) =>
          (ret'.exc = ret.exc /\ ret'.val = ret.val)]_vars

\* a repeated call after the scores of both snippets returned before were
\* overwritten
C13_Witness ==
    /\ ret.again
    /\ ret.exc = "none"
    /\ Len(ret.val) = 2
    /\ ret.val[1].score > ret.val[2].score


-----------------------------------------------------------------------------
(* one evaluation whose per-claim retrieve and score steps are interleaved *)

\* seeded fault: the retriever fills one result buffer, the j-th snippet of
\* every result is the same object
allocate_shared(h, snippets) ==
    [heap |-> [c \in 1..Max(Len(h), Len(snippets)) |->
                  IF c <= Len(snippets) THEN snippets[c] ELSE h[c]],
     refs |-> [j \in DOMAIN snippets |-> j]]

\* _retrieve_bm25 and _retrieve_embedding build a new SupportingSnippet for
\* every element of the list they return: h the objects that exist
allocate(h, snippets) ==
    [heap |-> h \o snippets, refs |-> [j \in DOMAIN snippets |-> Len(h) + j]]

\* the values of the objects refs, in the heap h
deref(h, refs) == [j \in DOMAIN refs |-> h[refs[j]]]

\* a ClaimAnalysis that holds its supporting snippets by reference, as a value
analysis_value(h, analysis) ==
    [analysis EXCEPT !.supporting_snippets = deref(h, analysis.supporting_snippets)]

\* evaluate, step 1, on an answer without citation markers
ExtractTasks ==
    /\ pc = "idle"
    /\ \E ans \in {a \in Answers : extract_citations(a.text) = <<>>}, ps \in Contexts :
         /\ answer' = ans
         /\ context' = ps
         /\ claims' = extract_claims(ans)
    /\ pc' = "index"
    /\ UNCHANGED <<rvars, e_threshold, classifier, evidence_dict, claim_analyses, e_i, result>>

\* evidence = retrieve(claim); evidence_dict[claim] = evidence, for the k-th
\* claim; an exception of retrieve ends the evaluation
TaskRetrieve(k) ==
    /\ pc = "retrieve" /\ k \notin DOMAIN task
    /\ retrieve(claims[k], None)
    /\ IF ret'.exc # "none"
       THEN pc' = "raised" /\ UNCHANGED pvars
       ELSE LET a == allocate(heap, ret'.val)
            IN  /\ heap' = a.heap
                /\ evidence_refs' = [c \in DOMAIN evidence_refs \cup {claims[k]} |->
                                        IF c = claims[k] THEN a.refs ELSE evidence_refs[c]]
                /\ task' = [j \in DOMAIN task \cup {k} |->
                               IF j = k THEN [state |-> "retrieved", analysis |-> NoAnalysis]
                               ELSE task[j]]
                /\ pc' = pc
    /\ UNCHANGED <<e_threshold, classifier, answer, context, claims, evidence_dict,
                   claim_analyses, e_i, result>>

\* analysis = score_claim(claim, evidence_dict[claim], threshold) for the k-th
\* claim: the scores are written into the snippet objects of that list
TaskScore(k) ==
    /\ pc = "retrieve" /\ k \in DOMAIN task /\ task[k].state = "retrieved"
    /\ LET claim == claims[k]
           refs == evidence_refs[claim]
           evidence == deref(heap, refs)
       IN  \E entail \in ExtendEntail(classifier, entail_pairs(claim, evidence)) :
             LET r == nli_score_claim(claim, evidence, e_threshold, entail)
                 best == supporting_refs(claim, evidence, e_threshold, entail)
             IN  /\ classifier' = entail
                 /\ heap' = [c \in DOMAIN heap |->
                                IF \E j \in DOMAIN refs : refs[j] = c
                                THEN r.evidence[CHOOSE j \in DOMAIN refs : refs[j] = c]
                                ELSE heap[c]]
                 /\ task' = [task EXCEPT ![k] =
                               [state |-> "scored",
                                analysis |-> [r.out.val EXCEPT !.supporting_snippets =
                                                [j \in DOMAIN best |-> refs[best[j]]]]]]
    /\ UNCHANGED <<rvars, evidence_refs, e_threshold, pc, answer, context, claims,
                   evidence_dict, claim_analyses, e_i, result>>

\* every claim is scored: claim_analyses holds the analyses in claim order
TasksJoin ==
    /\ pc = "retrieve"
    /\ DOMAIN task = DOMAIN claims
    /\ \A k \in DOMAIN task : task[k].state = "scored"
    /\ claim_analyses' = [k \in DOMAIN claims |-> analysis_value(heap, task[k].analysis)]
    /\ pc' = "finish"
    /\ UNCHANGED <<rvars, pvars, e_threshold, classifier, answer, context, claims,
                   evidence_dict, e_i, result>>

ParallelNext ==
    \/ ExtractTasks /\ UNCHANGED <<svars, fvars, pvars>>
    \/ EvaluateIndex /\ UNCHANGED <<svars, fvars, pvars>>
    \/ \E k \in DOMAIN claims : TaskRetrieve(k) /\ UNCHANGED <<svars, fvars>>
    \/ \E k \in DOMAIN claims : TaskScore(k) /\ UNCHANGED <<svars, fvars>>
    \/ TasksJoin /\ UNCHANGED <<svars, fvars>>
    \/ EvaluateFinish /\ UNCHANGED <<svars, fvars, pvars>>

\* an evaluator with the default retrieval method, BM25
ParallelSpecInit ==
    EvaluatorInit /\ method = "bm25" /\ ScorerIdle /\ FunctionIdle /\ ParallelIdle

\* one evaluate call whose retrieve and score steps run in any order, a claim's
\* score step after its retrieve step
ParallelSpec == ParallelSpecInit /\ [][ParallelNext]_vars

\* the ClaimAnalysis of the k-th claim in the sequential order of evaluate
sequential_analysis(k) ==
    nli_score_claim(claims[k], retrieved(claims[k]), e_threshold, classifier).out.val

\* C26: the per-claim retrieve and score steps share no mutable state but the
\* index, which they only read: a score_claim step for one claim changes
\* neither the evidence snippets retrieved for a different claim nor the
\* indexed passages, and under every interleaving of the retrieve and score
\* steps of one evaluation the ClaimAnalysis of each claim, once scored and
\* from then on, is the one the sequential order produces.
C26_StepsIndependent ==
    /\ [][ \A k \in DOMAIN task :
              (task[k].state = "retrieved" /\ task'[k].state = "scored") =>
                  /\ UNCHANGED <<passages, passage_texts, bm25, passage_embeddings>>
                  /\ \A c \in DOMAIN evidence_refs \ {claims[k]} :
                        deref(heap', evidence_refs'[c]) = deref(heap, evidence_refs[c]) ]_vars
    /\ [](/\ \A k \in DOMAIN task :
                task[k].state = "scored" =>
                    analysis_value(heap, task[k].analysis) = sequential_analysis(k)
          /\ pc \in {"finish", "done"} =>
                /\ Len(claim_analyses) = Len(claims)
                /\ \A k \in DOMAIN claims : claim_analyses[k] = sequential_analysis(k)
                /\ pc = "done" => result.claim_analysis = claim_analyses)

\* a finished evaluation of two different claims that were given the same
\* passage as evidence, the second claim's retrieve step before the first's;
\* the scorer wrote different scores into the two snippets of that passage
C26_Witness ==
    /\ pc = "done"
    /\ Len(claims) = 2 /\ claims[1] # claims[2]
    /\ \A k \in 1..2 : evidence_refs[claims[k]] # <<>>
    /\ evidence_refs[claims[2]][1] < evidence_refs[claims[1]][1]
    /\ \A k \in 1..2 : task[k].analysis.supporting_snippets # <<>>
    /\ LET s1 == heap[task[1].analysis.supporting_snippets[1]]
           s2 == heap[task[2].analysis.supporting_snippets[1]]
       IN  s1.passage_id = s2.passage_id /\ s1.score # s2.score
    /\ result.claim_analysis[1] # result.claim_analysis[2]
====
